---- MODULE Spec2Model ----
(***************************************************************************)
(* Request pipeline of the Express / MongoDB API framework: the todo       *)
(* routes (v1_routes/todo_demo_routes), the AJV validation gate            *)
(* (v1_schema/validation.js), the ObjectId parameter check                 *)
(* (lib/utilities/mongo_utils.js), the todos collection                    *)
(* (todo_demo_module.js) and the central error handler (app.js).           *)
(***************************************************************************)
EXTENDS Integers, Sequences, FiniteSets, TLC

(***************************************************************************)
(* Bounds of the model.                                                    *)
(***************************************************************************)
\* number of documents the driver may insert (ObjectIds it generates)
MaxDocs == 2
\* largest value of the clock read by new Date()
MaxTime == 1
\* number of documents inserted while the gates are exercised with every body
GateDocs == 1
\* number of documents inserted while every route and configuration is exercised
AppDocs == 1
\* number of documents inserted while the stored documents are followed
StoreDocs == 1

(***************************************************************************)
(* JSON values.  t is the JavaScript type, n the number (or 0/1 of a       *)
(* boolean, or the milliseconds of a Date), s the characters of a string.  *)
(***************************************************************************)
Str(s) == [t |-> "string", n |-> 0, s |-> s]
Num(n) == [t |-> "number", n |-> n, s |-> ""]
Bool(b) == [t |-> "boolean", n |-> IF b THEN 1 ELSE 0, s |-> ""]
Null == [t |-> "null", n |-> 0, s |-> ""]
DateVal(ms) == [t |-> "date", n |-> ms, s |-> ""]
Absent == [t |-> "absent", n |-> 0, s |-> ""]

\* the object with no property
EmptyProps == [f \in {} |-> Null]

\* props restricted to the properties that are present in a choice record
PropsOf(c) == [f \in {g \in DOMAIN c : c[g].t # "absent"} |-> c[f]]

\* o with the properties of u set (object spread / $set)
Merge(o, u) ==
  [f \in DOMAIN o \cup DOMAIN u |-> IF f \in DOMAIN u THEN u[f] ELSE o[f]]

(***************************************************************************)
(* The schema registry and the todo schema.                                *)
(***************************************************************************)
\* mutant: assigned_to is missing from the required list
todoSchemaShortRequired ==
  [type |-> "object",
   required |-> <<"task", "priority", "is_complete">>,
   properties |-> [task |-> "string", priority |-> "number",
                   assigned_to |-> "string", is_complete |-> "boolean"],
   additionalProperties |-> FALSE]

\* mutant: the schema does not close the set of properties
todoSchemaOpen ==
  [type |-> "object",
   required |-> <<"task", "priority", "assigned_to", "is_complete">>,
   properties |-> [task |-> "string", priority |-> "number",
                   assigned_to |-> "string", is_complete |-> "boolean"],
   additionalProperties |-> TRUE]

todoSchema ==
  [type |-> "object",
   required |-> <<"task", "priority", "assigned_to", "is_complete">>,
   properties |-> [task |-> "string", priority |-> "number",
                   assigned_to |-> "string", is_complete |-> "boolean"],
   additionalProperties |-> FALSE]

schema == [todo |-> todoSchema]

(***************************************************************************)
(* AJV, as configured: allErrors, coerceTypes.                             *)
(***************************************************************************)
\* +data of a string, for the strings of the model; -1 when data # +data
ToNumber(s) ==
  CASE s = "1" -> 1
    [] s = "2" -> 2
    [] s = "3" -> 3
    [] OTHER -> -1

\* "" + data of a number
NumberToString(n) ==
  CASE n = 1 -> "1"
    [] n = 2 -> "2"
    [] n = 3 -> "3"
    [] OTHER -> "0"

\* mutant: AJV without coerceTypes
CoerceToSameType(v, ty) == [ok |-> v.t = ty, val |-> v]

\* the value of v coerced to type ty: [ok, val]
CoerceTo(v, ty) ==
  IF v.t = ty THEN [ok |-> TRUE, val |-> v]
  ELSE IF ty = "string" THEN
    IF v.t = "number" THEN [ok |-> TRUE, val |-> Str(NumberToString(v.n))]
    ELSE IF v.t = "boolean"
      THEN [ok |-> TRUE, val |-> Str(IF v.n = 1 THEN "true" ELSE "false")]
    ELSE IF v.t = "null" THEN [ok |-> TRUE, val |-> Str("")]
    ELSE [ok |-> FALSE, val |-> v]
  ELSE IF ty = "number" THEN
    IF v.t = "boolean" \/ v.t = "null" THEN [ok |-> TRUE, val |-> Num(v.n)]
    ELSE IF v.t = "string" /\ v.s # "" /\ ToNumber(v.s) >= 0
      THEN [ok |-> TRUE, val |-> Num(ToNumber(v.s))]
    ELSE [ok |-> FALSE, val |-> v]
  ELSE IF ty = "boolean" THEN
    IF v = Str("false") \/ v = Num(0) \/ v.t = "null"
      THEN [ok |-> TRUE, val |-> Bool(FALSE)]
    ELSE IF v = Str("true") \/ v = Num(1) THEN [ok |-> TRUE, val |-> Bool(TRUE)]
    ELSE [ok |-> FALSE, val |-> v]
  ELSE [ok |-> FALSE, val |-> v]

\* one entry of validate.errors
AjvError(path, reason, param) == [path |-> path, reason |-> reason, param |-> param]

\* an error message that is one plain sentence
Plain(text) == <<AjvError("", text, "")>>

\* the declared property names in declaration order
PropertyOrder == <<"task", "priority", "assigned_to", "is_complete">>

\* the property names a request body may carry besides the declared ones
ExtraNames == <<"extra", "date_created">>

RECURSIVE RequiredErrors(_, _, _)
RequiredErrors(required, props, i) ==
  IF i > Len(required) THEN <<>>
  ELSE (IF required[i] \in DOMAIN props THEN <<>>
        ELSE <<AjvError("data", "must have required property", required[i])>>)
       \o RequiredErrors(required, props, i + 1)

RECURSIVE AdditionalErrors(_, _, _)
AdditionalErrors(sch, props, i) ==
  IF i > Len(ExtraNames) THEN <<>>
  ELSE (IF ExtraNames[i] \in DOMAIN props /\ ~sch.additionalProperties
          THEN <<AjvError("data", "must NOT have additional properties", ExtraNames[i])>>
        ELSE <<>>)
       \o AdditionalErrors(sch, props, i + 1)

\* the message of a failed type keyword
TypeReason(ty) ==
  CASE ty = "string" -> "must be string"
    [] ty = "number" -> "must be number"
    [] ty = "boolean" -> "must be boolean"
    [] OTHER -> "must be object"

RECURSIVE TypeErrors(_, _, _)
TypeErrors(sch, props, i) ==
  IF i > Len(PropertyOrder) THEN <<>>
  ELSE LET f == PropertyOrder[i] IN
       (IF f \in DOMAIN props /\ ~CoerceTo(props[f], sch.properties[f]).ok
          THEN <<AjvError(f, TypeReason(sch.properties[f]), "type")>>
        ELSE <<>>)
       \o TypeErrors(sch, props, i + 1)

\* mutant: the values are checked as coercible but the data is left as sent
CoercedNone(sch, props) == props

\* the data after the coercions AJV writes into it while checking
Coerced(sch, props) ==
  [f \in DOMAIN props |->
     IF f \in DOMAIN sch.properties
       THEN CoerceTo(props[f], sch.properties[f]).val
     ELSE props[f]]

\* validate(data) of a compiled schema: [valid, errors, data]
AjvValidate(sch, body) ==
  IF ~body.obj
    THEN [valid |-> FALSE,
          errors |-> <<AjvError("data", "must be object", "type")>>,
          data |-> body]
  ELSE LET errs == RequiredErrors(sch.required, body.props, 1)
                   \o AdditionalErrors(sch, body.props, 1)
                   \o TypeErrors(sch, body.props, 1)
       IN [valid |-> errs = <<>>,
           errors |-> errs,
           data |-> [obj |-> TRUE, props |-> Coerced(sch, body.props)]]

(***************************************************************************)
(* getSchemaValidator: the gate of a route, made when the route is         *)
(* registered.  known is FALSE for a name the registry does not have;      *)
(* compiled is the deep copy of the schema that was compiled.              *)
(***************************************************************************)
VARIABLE
  schemaHeap   \* the schema objects alive: address 1 is the object the registry
               \* holds under "todo", the others are the copies that the calls
               \* of getSchemaValidator made

\* the heap once the schema registry is loaded
RegisteredHeap == <<todoSchema>>

\* the address of the object registered under a name
SchemaAddress == [todo |-> 1]

\* mutant: no copy is made: schemaCopy is baseSchema itself
DeepCloneAliased(heap, at) == [heap |-> heap, at |-> at]

\* JSON.parse(JSON.stringify(obj)): a new object with the content of the old one
DeepClone(heap, at) == [heap |-> Append(heap, heap[at]), at |-> Len(heap) + 1]

\* delete obj.required
DeleteRequired(heap, at) == [heap EXCEPT ![at].required = <<>>]

\* schemaCopy when it is compiled, and the heap it lives in
CompiledCopy(schemaType, mode) ==
  LET copy == DeepClone(schemaHeap, SchemaAddress[schemaType])
  IN [heap |-> IF mode = "partial" THEN DeleteRequired(copy.heap, copy.at) ELSE copy.heap,
      at |-> copy.at]

\* the property names every object inherits from Object.prototype
ObjectPrototypeKeys == {"toString", "constructor", "hasOwnProperty", "valueOf"}

\* Object.hasOwn(obj, key)
hasOwn(obj, key) == key \in DOMAIN obj

\* obj[key] is undefined: key is neither an own nor an inherited property
IsUndefined(obj, key) == key \notin DOMAIN obj \cup ObjectPrototypeKeys

\* the heap after a call of getSchemaValidator
HeapAfter(schemaType, mode) ==
  IF ~hasOwn(schema, schemaType) THEN schemaHeap
  ELSE CompiledCopy(schemaType, mode).heap

\* mutant: partial mode also lifts the closed-property constraint
getSchemaValidatorOpen(schemaType, mode) ==
  IF ~hasOwn(schema, schemaType)
    THEN [known |-> FALSE, threw |-> FALSE, schemaType |-> schemaType, mode |-> mode,
          compiled |-> todoSchema]
  ELSE LET schemaCopy == schema[schemaType] IN
       [known |-> TRUE, threw |-> FALSE, schemaType |-> schemaType, mode |-> mode,
        compiled |-> IF mode = "partial"
                       THEN [schemaCopy EXCEPT !.required = <<>>,
                                               !.additionalProperties = TRUE]
                     ELSE schemaCopy]

\* mutant: the registry is tested with !schema[schemaType]; for an inherited
\* name the value is a function, JSON.stringify of it is undefined and
\* JSON.parse(undefined) throws
getSchemaValidatorTruthy(schemaType, mode) ==
  IF IsUndefined(schema, schemaType)
    THEN [known |-> FALSE, threw |-> FALSE, schemaType |-> schemaType, mode |-> mode,
          compiled |-> todoSchema]
  ELSE IF ~hasOwn(schema, schemaType)
    THEN [known |-> FALSE, threw |-> TRUE, schemaType |-> schemaType, mode |-> mode,
          compiled |-> todoSchema]
  ELSE LET schemaCopy == schema[schemaType] IN
       [known |-> TRUE, threw |-> FALSE, schemaType |-> schemaType, mode |-> mode,
        compiled |-> IF mode = "partial"
                       THEN [schemaCopy EXCEPT !.required = <<>>]
                     ELSE schemaCopy]

\* threw: the factory call throws instead of returning a gate
getSchemaValidator(schemaType, mode) ==
  IF ~hasOwn(schema, schemaType)
    THEN [known |-> FALSE, threw |-> FALSE, schemaType |-> schemaType, mode |-> mode,
          compiled |-> todoSchema]
  ELSE LET schemaCopy == CompiledCopy(schemaType, mode) IN
       [known |-> TRUE, threw |-> FALSE, schemaType |-> schemaType, mode |-> mode,
        compiled |-> schemaCopy.heap[schemaCopy.at]]

\* mutant: the gate calls next() whatever validate returned
GateOutcomeAlwaysNext(gate, body) ==
  [pass |-> TRUE, status |-> 0, message |-> <<>>,
   body |-> IF gate.known THEN AjvValidate(gate.compiled, body).data ELSE body]

\* the outcome of the gate on a body: [pass, status, message, body]
GateOutcome(gate, body) ==
  IF ~gate.known
    THEN [pass |-> FALSE, status |-> 422, message |-> Plain("Unknown schema type"),
          body |-> body]
  ELSE LET v == AjvValidate(gate.compiled, body) IN
       IF ~v.valid
         THEN [pass |-> FALSE, status |-> 422, message |-> v.errors, body |-> v.data]
       ELSE [pass |-> TRUE, status |-> 0, message |-> <<>>, body |-> v.data]

(***************************************************************************)
(* ObjectIds.  A hex string is the tuple of its characters, an ObjectId    *)
(* the tuple of its 24 nibbles.                                            *)
(***************************************************************************)
ObjectIdHexLen == 24

HexChars == <<"0", "1", "2", "3", "4", "5", "6", "7", "8", "9",
              "a", "b", "c", "d", "e", "f">>

\* the value of a hex character, -1 for any other character
HexValue(c) ==
  CASE c = "A" -> 10 [] c = "B" -> 11 [] c = "C" -> 12
    [] c = "D" -> 13 [] c = "E" -> 14 [] c = "F" -> 15
    [] OTHER -> IF \E i \in 1..16 : HexChars[i] = c
                  THEN (CHOOSE i \in 1..16 : HexChars[i] = c) - 1
                ELSE -1

\* mutant: the check of the driver's older majors, which also accepts any
\* string of 12 characters
ObjectIdIsValidLegacy(value) ==
  \/ Len(value) = 12
  \/ /\ Len(value) = ObjectIdHexLen
     /\ \A i \in 1..Len(value) : HexValue(value[i]) >= 0

\* mutant: only the length of the parameter is checked
ObjectIdIsValidLength(value) == Len(value) = ObjectIdHexLen

\* ObjectId.isValid of a route parameter (always a string)
ObjectIdIsValid(value) ==
  /\ Len(value) = ObjectIdHexLen
  /\ \A i \in 1..Len(value) : HexValue(value[i]) >= 0

\* whether ObjectId.createFromHexString throws
CreateFromHexStringThrows(id) ==
  \/ Len(id) # ObjectIdHexLen
  \/ \E i \in 1..Len(id) : HexValue(id[i]) < 0

\* castObjectId(id), when it does not throw
castObjectId(id) == [i \in 1..ObjectIdHexLen |-> HexValue(id[i])]

\* ObjectId.toHexString
toHexString(oid) == [i \in 1..ObjectIdHexLen |-> HexChars[oid[i] + 1]]

\* the k-th ObjectId the driver generates for an insert
GeneratedId(k) ==
  [i \in 1..ObjectIdHexLen |-> IF i = ObjectIdHexLen THEN k ELSE IF i = 1 THEN 6 ELSE 0]

\* the id of the not-found tests, in no collection
missingId ==
  <<"5", "0", "7", "f", "1", "f", "7", "7", "b", "c", "f", "8",
    "6", "c", "d", "7", "9", "9", "4", "3", "9", "0", "1", "1">>

\* the values of the :id parameter the clients send
IdParams ==
  {toHexString(GeneratedId(k)) : k \in 1..MaxDocs}
    \cup {missingId, <<"a", "b", "c">>,
          [i \in 1..ObjectIdHexLen |-> IF i = 2 THEN "z" ELSE "0"]}

\* strings around the two lengths an ObjectId is written in: 12 characters
\* (its bytes), 24 characters (its hexadecimal form), one more, one less
IdStrings ==
  IdParams
    \cup {[i \in 1..n |-> "a"] : n \in {12, 23, 25}}
    \cup {[i \in 1..12 |-> "x"],
          [i \in 1..ObjectIdHexLen |-> IF i = 3 THEN "A" ELSE "0"],
          [i \in 1..ObjectIdHexLen |-> IF i = ObjectIdHexLen THEN "g" ELSE "1"]}

(***************************************************************************)
(* JSON serialisation of res.json.                                         *)
(***************************************************************************)
\* Date.prototype.toJSON: the ISO-8601 string of the instant
DateToJSON(v) == [t |-> "string", n |-> v.n, s |-> "ISO-8601"]

JsonProps(props) ==
  [f \in DOMAIN props |-> IF props[f].t = "date" THEN DateToJSON(props[f]) ELSE props[f]]

\* a document with its _id, as the client reads it
JsonDoc(oid, props) == [_id |-> toHexString(oid), props |-> JsonProps(props)]

(***************************************************************************)
(* Routes of todo_demo_routes_index.js and their middleware chains.        *)
(***************************************************************************)
ListRoute == "GET /v1/todo"
GetRoute == "GET /v1/todo/:id"
PostRoute == "POST /v1/todo"
PutRoute == "PUT /v1/todo/:id"
DeleteRoute == "DELETE /v1/todo/:id"

Routes == {ListRoute, GetRoute, PostRoute, PutRoute, DeleteRoute}

\* the routes whose path carries :id, for which app.param("id", ...) runs
HasIdParam(route) == route \in {GetRoute, PutRoute, DeleteRoute}

\* the routes of diagnostic_routes_index.js, and a path no route matches
HealthRoute == "GET /v1/health_check"
ThrowRoute == "GET /v1/throw_error"
AuthTestRoute == "GET /v1/auth_test"
UnmatchedRoute == "GET /v1/nothing"

AppRoutes == Routes \cup {HealthRoute, ThrowRoute, AuthTestRoute, UnmatchedRoute}

\* the routes with authenticate_user in their chain
HasAuth(route) == route \in Routes \cup {AuthTestRoute}

\* the routes with a validation gate in their chain
HasGate(route) == route \in {PostRoute, PutRoute}

\* the gate registered on a route
GateOf(route) ==
  IF route = PutRoute THEN getSchemaValidator("todo", "partial")
  ELSE getSchemaValidator("todo", "strict")

(***************************************************************************)
(* Request bodies, as express.json() leaves them in req.body.              *)
(***************************************************************************)
EmptyBody == [obj |-> TRUE, props |-> EmptyProps]
ArrayBody == [obj |-> FALSE, props |-> EmptyProps]

\* every combination of a present or absent property and its value
GateChoices ==
  [task : {Absent, Str("a")},
   priority : {Absent, Num(1), Str("2"), Str("high"), Str("")},
   assigned_to : {Absent, Str("bob")},
   is_complete : {Absent, Bool(FALSE), Str("true")},
   extra : {Absent, Str("nope")}]

GateBodies == {[obj |-> TRUE, props |-> PropsOf(c)] : c \in GateChoices} \cup {ArrayBody}

\* the bodies of the requests that exercise the collection
ValidTodo(priority, is_complete) ==
  [obj |-> TRUE,
   props |-> [task |-> Str("a"), priority |-> priority, assigned_to |-> Str("bob"),
              is_complete |-> is_complete]]

CrudBodies ==
  {ValidTodo(Num(1), Bool(FALSE)),
   ValidTodo(Str("2"), Str("true")),
   EmptyBody,
   [obj |-> TRUE, props |-> [is_complete |-> Bool(TRUE)]],
   [obj |-> TRUE, props |-> [priority |-> Str("1")]],
   [obj |-> TRUE, props |-> [priority |-> Str("high")]],
   [obj |-> TRUE, props |-> [is_complete |-> Bool(FALSE), extra |-> Str("nope")]],
   ArrayBody}

(***************************************************************************)
(* The process environment and the Env singleton (environment.js).  A      *)
(* variable of process.env is unset or set to a string; the DB_ variables  *)
(* are tuples of characters (a run of non-blank characters counts as one), *)
(* the others plain strings.                                               *)
(***************************************************************************)
Unset == [set |-> FALSE, val |-> ""]
UnsetChars == [set |-> FALSE, val |-> <<>>]
SetTo(v) == [set |-> TRUE, val |-> v]

\* process.env.X || fallback, for a plain string and for a tuple of characters
OrElse(v, fallback) == IF v.set /\ v.val # "" THEN v.val ELSE fallback
OrElseChars(v, fallback) == IF v.set /\ v.val # <<>> THEN v.val ELSE fallback

\* the configuration when no variable is set
DefaultEnv ==
  [NODE_ENV |-> Unset, USE_SSL |-> Unset, SERVICE_URL |-> Unset,
   DB_URI |-> UnsetChars, DB_USER_NAME |-> UnsetChars, DB_PASSWORD |-> UnsetChars,
   DB_URL |-> UnsetChars, DB_PORT |-> UnsetChars]

\* the getters of class Env
environment(e) == OrElse(e.NODE_ENV, "production")
useSSL(e) == e.USE_SSL = SetTo("true")
serviceUrl(e) == OrElse(e.SERVICE_URL, "")
httpPort == 3000
httpsPort == 4443
dbUrl(e) == OrElseChars(e.DB_URL, <<"localhost">>)
dbPort(e) == OrElseChars(e.DB_PORT, <<"27017">>)
dbUsername(e) == OrElseChars(e.DB_USER_NAME, <<>>)
dbPassword(e) == OrElseChars(e.DB_PASSWORD, <<>>)

\* env.dbUri: class Env defines no such property, the read yields undefined
dbUri(e) == UnsetChars

\* the "env" setting of the Express application, fixed when express() runs
AppEnv(e) == OrElse(e.NODE_ENV, "development")

(***************************************************************************)
(* The Db singleton (db.js): the URI its constructor gives the client.     *)
(***************************************************************************)
WhiteSpace == {" ", "\t", "\n"}

\* String.prototype.trim
RECURSIVE TrimStart(_)
TrimStart(s) ==
  IF s # <<>> /\ Head(s) \in WhiteSpace THEN TrimStart(Tail(s)) ELSE s

RECURSIVE TrimEnd(_)
TrimEnd(s) ==
  IF s # <<>> /\ s[Len(s)] \in WhiteSpace THEN TrimEnd(SubSeq(s, 1, Len(s) - 1)) ELSE s

trim(s) == TrimEnd(TrimStart(s))

\* encodeURIComponent of one character
EncodeChar(c) ==
  CASE c = "@" -> "%40"
    [] c = ":" -> "%3A"
    [] c = "/" -> "%2F"
    [] c = " " -> "%20"
    [] OTHER -> c

encodeURIComponent(s) == [i \in 1..Len(s) |-> EncodeChar(s[i])]

\* const uri of the constructor
uri(e) ==
  IF dbUri(e).set /\ dbUri(e).val # <<>> /\ trim(dbUri(e).val) # <<>>
    THEN trim(dbUri(e).val)
  ELSE LET user == IF dbUsername(e) # <<>> THEN encodeURIComponent(dbUsername(e)) ELSE <<>>
           pass == IF dbPassword(e) # <<>> THEN encodeURIComponent(dbPassword(e)) ELSE <<>>
           auth == IF user # <<>> /\ pass # <<>> THEN user \o <<":">> \o pass \o <<"@">>
                   ELSE <<>>
       IN <<"mongodb://">> \o auth \o dbUrl(e) \o <<":">> \o dbPort(e)

\* the client before and after new MongoClient(uri, ...)
NoClient == [constructed |-> FALSE, uri |-> <<>>]
MongoClient(u) == [constructed |-> TRUE, uri |-> u]

(***************************************************************************)
(* State.                                                                  *)
(***************************************************************************)
VARIABLES
  req,         \* the request in each slot: its position in the chain and its data
  collection,  \* the todos collection: ObjectId -> document (without _id)
  inserted,    \* number of ObjectIds the driver has generated
  now,         \* the clock
  dbHandle,    \* db._db is set
  deletedIds,  \* history: ObjectIds a deleteOne was run for, with no insert since
  lastPosted,  \* history: the document of the last 201 response, while the
               \* stored document has not been updated or deleted since
  processEnv,  \* process.env, read through the Env singleton
  client,      \* db._client: the MongoClient and the URI it was constructed with
  probe,       \* a gate made by getSchemaValidator for a given name and mode,
               \* and what it did with a body
  validateErrors  \* validate.errors of the compiled check of each mode, kept
               \* where more than one request is followed at a time

vars == <<req, collection, inserted, now, dbHandle, deletedIds, lastPosted,
          processEnv, client, probe, schemaHeap, validateErrors>>

Slots == {"r1"}

\* validate.errors is not followed
NotKept == [kept |-> FALSE, strict |-> <<>>, partial |-> <<>>]

\* validate.errors of both compiled checks is null
NoErrors == [kept |-> TRUE, strict |-> <<>>, partial |-> <<>>]

NoErr == [status |-> 0, message |-> <<>>]
NoStored == [op |-> "none", threw |-> FALSE, count |-> 0, docs |-> <<>>, repeat |-> FALSE]
\* kind is the shape of the body: "data" (a document or an array), "envelope"
\* ({error: {message, stack?}}), "errorString" ({error: string}), "statusText"
\* (sendStatus), "page" (the rendered error template)
NoRes ==
  [status |-> 0, by |-> "", message |-> <<>>, body |-> <<>>, isArray |-> FALSE,
   kind |-> "", stack |-> "absent", page |-> <<>>]

\* sent counts the responses written for the request
IdleReq ==
  [pc |-> "idle", route |-> "", id |-> <<>>, raw |-> EmptyBody, body |-> EmptyBody,
   accept |-> "", host |-> "",
   user |-> "", trace |-> <<>>, err |-> NoErr, stored |-> NoStored, res |-> NoRes,
   sent |-> 0]

\* no probe gate has been made
NoProbe ==
  [made |-> FALSE, schemaType |-> "", mode |-> "", gate |-> <<>>,
   asked |-> FALSE, body |-> EmptyBody, outcome |-> <<>>]

\* the state once the modules are loaded: the Db singleton is constructed
InitStore ==
  /\ req = [r \in Slots |-> IdleReq]
  /\ collection = [o \in {} |-> EmptyProps]
  /\ inserted = 0
  /\ now = 0
  /\ dbHandle = FALSE
  /\ deletedIds = {}
  /\ lastPosted = <<>>
  /\ probe = NoProbe
  /\ schemaHeap = RegisteredHeap
  /\ validateErrors = NotKept

Init ==
  /\ InitStore
  /\ processEnv = DefaultEnv
  /\ client = MongoClient(uri(processEnv))

StoreUnchanged == UNCHANGED <<collection, inserted, deletedIds, lastPosted>>

(***************************************************************************)
(* The environment: the clock, db.connect(), a request arriving.           *)
(***************************************************************************)
Tick ==
  /\ now < MaxTime
  /\ now' = now + 1
  /\ UNCHANGED <<req, collection, inserted, dbHandle, deletedIds, lastPosted,
               processEnv, client, probe,
               schemaHeap, validateErrors>>

\* db.connect(): this._db = this._client.db(env.dbName)
connect ==
  /\ client.constructed
  /\ ~dbHandle
  /\ dbHandle' = TRUE
  /\ UNCHANGED <<req, collection, inserted, now, deletedIds, lastPosted,
               processEnv, client, probe,
               schemaHeap, validateErrors>>

\* the POST requests under way, each of which may still insert a document
InFlightPosts ==
  Cardinality({r \in DOMAIN req : req[r].pc # "idle" /\ req[r].route = PostRoute})

\* a request is routed: req.params.id and req.body are set
RouteWith(r, routes, ids, bodies, maxDocs, headers) ==
  /\ req[r].pc = "idle"
  /\ \E route \in routes :
       /\ route = PostRoute => inserted + InFlightPosts < maxDocs
       /\ \E id \in IF HasIdParam(route) THEN ids ELSE {<<>>} :
          \E b \in IF HasGate(route) THEN bodies ELSE {EmptyBody} :
          \E h \in headers :
            req' = [req EXCEPT ![r] =
                     [IdleReq EXCEPT !.pc = IF HasIdParam(route) THEN "param"
                                            ELSE IF HasAuth(route) THEN "auth"
                                            ELSE "handler",
                                     !.route = route, !.id = id, !.raw = b, !.body = b,
                                     !.accept = h.accept, !.host = h.host]]
  /\ UNCHANGED <<now, dbHandle, processEnv, client, probe,
               schemaHeap, validateErrors>>
  /\ StoreUnchanged

\* a request whose :id is one of the ids the clients know
Route(r, routes, bodies, maxDocs, headers) ==
  RouteWith(r, routes, IdParams, bodies, maxDocs, headers)

\* the headers of a client that accepts JSON (no Accept header, or one that
\* matches application/json)
JsonHeaders == {[accept |-> "json", host |-> "api.example.com"]}

\* a request to any todo route
Arrive(r) == Route(r, Routes, CrudBodies, MaxDocs, JsonHeaders)

\* a request to a route with a validation gate, with any body
ArriveGated(r) == Route(r, {PostRoute, PutRoute}, GateBodies, GateDocs, JsonHeaders)

\* the response has been sent; the slot serves the next request
Finish(r) ==
  /\ req[r].pc = "done"
  /\ req' = [req EXCEPT ![r] = IdleReq]
  /\ UNCHANGED <<now, dbHandle, processEnv, client, probe,
               schemaHeap, validateErrors>>
  /\ StoreUnchanged

(***************************************************************************)
(* Middleware.                                                             *)
(***************************************************************************)
\* app.param("id", validateObjectIdParamHandler)
validateObjectIdParamHandler(r) ==
  /\ req[r].pc = "param"
  /\ req' = [req EXCEPT ![r] =
       IF ~ObjectIdIsValid(req[r].id)
         THEN [@ EXCEPT !.pc = "done", !.trace = Append(@, "param"),
                        !.sent = @ + 1,
                        !.res = [NoRes EXCEPT !.status = 400, !.by = "param",
                                              !.kind = "errorString",
                                              !.message = Plain("Invalid ObjectId")]]
       ELSE [@ EXCEPT !.pc = "auth", !.trace = Append(@, "param")]]
  /\ UNCHANGED <<now, dbHandle, processEnv, client, probe,
               schemaHeap, validateErrors>>
  /\ StoreUnchanged

authenticate_user(r) ==
  /\ req[r].pc = "auth"
  /\ req' = [req EXCEPT ![r] =
       [@ EXCEPT !.pc = IF HasGate(req[r].route) THEN "gate" ELSE "handler",
                 !.user = "stub_user", !.trace = Append(@, "auth")]]
  /\ UNCHANGED <<now, dbHandle, processEnv, client, probe,
               schemaHeap, validateErrors>>
  /\ StoreUnchanged

\* the mode of the gate registered on a route
ModeOf(route) == IF route = PutRoute THEN "partial" ELSE "strict"

\* validate.errors of a compiled check after it has judged a body
Recorded(mode, errors) ==
  IF validateErrors.kept THEN [validateErrors EXCEPT ![mode] = errors]
  ELSE validateErrors

\* mutant: the gate yields to the event loop between validate(req.body) and
\* the reading of validate.errors
SchemaGateYields(r) ==
  /\ \/ /\ req[r].pc = "gate"
        /\ LET out == GateOutcome(GateOf(req[r].route), req[r].body) IN
           /\ req' = [req EXCEPT ![r] =
                IF out.pass
                  THEN [@ EXCEPT !.pc = "handler", !.body = out.body,
                                 !.trace = Append(@, "gate")]
                ELSE [@ EXCEPT !.pc = "gateRead", !.body = out.body]]
           /\ validateErrors' = Recorded(ModeOf(req[r].route),
                                         IF out.pass THEN <<>> ELSE out.message)
     \/ /\ req[r].pc = "gateRead"
        /\ req' = [req EXCEPT ![r] =
             [@ EXCEPT !.pc = "error", !.trace = Append(@, "gate"),
                       !.err = [status |-> 422,
                                message |-> validateErrors[ModeOf(req[r].route)]]]]
        /\ UNCHANGED validateErrors
  /\ UNCHANGED <<now, dbHandle, processEnv, client, probe, schemaHeap>>
  /\ StoreUnchanged

\* the middleware getSchemaValidator returned: validate(req.body) and the
\* reading of validate.errors run in one callback
SchemaGate(r) ==
  /\ req[r].pc = "gate"
  /\ LET out == GateOutcome(GateOf(req[r].route), req[r].body)
         errors == IF out.pass THEN <<>> ELSE out.message
     IN /\ req' = [req EXCEPT ![r] =
             IF out.pass
               THEN [@ EXCEPT !.pc = "handler", !.body = out.body,
                              !.trace = Append(@, "gate")]
             ELSE [@ EXCEPT !.pc = "error", !.body = out.body,
                            !.trace = Append(@, "gate"),
                            !.err = [status |-> out.status, message |-> errors]]]
        /\ validateErrors' = Recorded(ModeOf(req[r].route), errors)
  /\ UNCHANGED <<now, dbHandle, processEnv, client, probe, schemaHeap>>
  /\ StoreUnchanged

(***************************************************************************)
(* TodoDemoModule: the calls on the collection.  Each runs the route       *)
(* handler up to its await; the store either answers or the call throws    *)
(* (db._db is null, the id cannot be cast, the driver rejects).            *)
(***************************************************************************)
Threw(op) == [NoStored EXCEPT !.op = op, !.threw = TRUE]

\* the documents of a collection in insertion order, each with its _id
RECURSIVE DocsFrom(_, _)
DocsFrom(coll, k) ==
  IF k > inserted THEN <<>>
  ELSE (IF GeneratedId(k) \in DOMAIN coll
          THEN <<[oid |-> GeneratedId(k), props |-> coll[GeneratedId(k)]]>>
        ELSE <<>>) \o DocsFrom(coll, k + 1)

\* history: the posted document is forgotten when its stored document changes
Forget(last, oid) ==
  IF last # <<>> /\ last[1]._id = toHexString(oid) THEN <<>> ELSE last

\* mutant: the update replaces the document
SetFieldsReplace(doc, update) == update

\* what $set writes into a document
SetFields(doc, update) == Merge(doc, update)

\* the handler is entered and runs to its await
Await(r, st) ==
  req' = [req EXCEPT ![r] = [@ EXCEPT !.pc = "await", !.trace = Append(@, "handler"),
                                      !.stored = st]]

listAll(r) ==
  /\ req[r].pc = "handler" /\ req[r].route = ListRoute
  /\ \/ /\ dbHandle
        /\ Await(r, [NoStored EXCEPT !.op = "find", !.docs = DocsFrom(collection, 1)])
     \/ Await(r, Threw("find"))
  /\ UNCHANGED <<now, dbHandle, processEnv, client, probe,
               schemaHeap, validateErrors>>
  /\ StoreUnchanged

getById(r) ==
  /\ req[r].pc = "handler" /\ req[r].route = GetRoute
  /\ \/ /\ dbHandle /\ ~CreateFromHexStringThrows(req[r].id)
        /\ LET oid == castObjectId(req[r].id) IN
           Await(r, [NoStored EXCEPT !.op = "findOne",
                       !.docs = IF oid \in DOMAIN collection
                                  THEN <<[oid |-> oid, props |-> collection[oid]]>>
                                ELSE <<>>])
     \/ Await(r, Threw("findOne"))
  /\ UNCHANGED <<now, dbHandle, processEnv, client, probe,
               schemaHeap, validateErrors>>
  /\ StoreUnchanged

\* todo.date_created = new Date(); insertOne(todo)
create(r) ==
  /\ req[r].pc = "handler" /\ req[r].route = PostRoute
  /\ LET todo == Merge(req[r].body.props, [date_created |-> DateVal(now)])
         oid == GeneratedId(inserted + 1)
     IN \/ /\ dbHandle
           /\ req' = [req EXCEPT ![r] =
                [@ EXCEPT !.pc = "await", !.trace = Append(@, "handler"),
                          !.body = [obj |-> TRUE, props |-> todo],
                          !.stored = [NoStored EXCEPT !.op = "insertOne", !.count = 1,
                                        !.docs = <<[oid |-> oid, props |-> todo]>>]]]
           /\ collection' = [o \in DOMAIN collection \cup {oid} |->
                               IF o = oid THEN todo ELSE collection[o]]
           /\ inserted' = inserted + 1
           /\ deletedIds' = {}
           /\ UNCHANGED lastPosted
        \/ /\ req' = [req EXCEPT ![r] =
                [@ EXCEPT !.pc = "await", !.trace = Append(@, "handler"),
                          !.body = [obj |-> TRUE, props |-> todo],
                          !.stored = Threw("insertOne")]]
           /\ StoreUnchanged
  /\ UNCHANGED <<now, dbHandle, processEnv, client, probe,
               schemaHeap, validateErrors>>

\* mutant: updateOne with upsert: a document is inserted when none matches
updateUpsert(r) ==
  /\ req[r].pc = "handler" /\ req[r].route = PutRoute
  /\ \/ /\ dbHandle /\ ~CreateFromHexStringThrows(req[r].id)
        /\ LET oid == castObjectId(req[r].id)
               matched == oid \in DOMAIN collection
               old == IF matched THEN collection[oid] ELSE EmptyProps
               new == SetFields(old, req[r].body.props)
               modified == matched /\ new # old
           IN /\ Await(r, [NoStored EXCEPT !.op = "updateOne",
                             !.count = IF modified THEN 1 ELSE 0])
              /\ collection' = IF modified \/ ~matched
                                 THEN [o \in DOMAIN collection \cup {oid} |->
                                         IF o = oid THEN new ELSE collection[o]]
                               ELSE collection
              /\ lastPosted' = IF modified THEN Forget(lastPosted, oid) ELSE lastPosted
              /\ UNCHANGED <<inserted, deletedIds>>
     \/ /\ Await(r, Threw("updateOne"))
        /\ StoreUnchanged
  /\ UNCHANGED <<now, dbHandle, processEnv, client, probe,
               schemaHeap, validateErrors>>

\* mutant: the result reports the documents matched, not the documents modified
updateMatched(r) ==
  /\ req[r].pc = "handler" /\ req[r].route = PutRoute
  /\ \/ /\ dbHandle /\ ~CreateFromHexStringThrows(req[r].id)
        /\ LET oid == castObjectId(req[r].id)
               old == collection[oid]
               new == SetFields(old, req[r].body.props)
               matched == oid \in DOMAIN collection
               modified == matched /\ new # old
           IN /\ Await(r, [NoStored EXCEPT !.op = "updateOne",
                             !.count = IF matched THEN 1 ELSE 0])
              /\ collection' = IF modified THEN [collection EXCEPT ![oid] = new]
                               ELSE collection
              /\ lastPosted' = IF modified THEN Forget(lastPosted, oid) ELSE lastPosted
              /\ UNCHANGED <<inserted, deletedIds>>
     \/ /\ Await(r, Threw("updateOne"))
        /\ StoreUnchanged
  /\ UNCHANGED <<now, dbHandle, processEnv, client, probe,
               schemaHeap, validateErrors>>

\* updateOne({_id}, {$set: update})
update(r) ==
  /\ req[r].pc = "handler" /\ req[r].route = PutRoute
  /\ \/ /\ dbHandle /\ ~CreateFromHexStringThrows(req[r].id)
        /\ LET oid == castObjectId(req[r].id)
               old == collection[oid]
               new == SetFields(old, req[r].body.props)
               modified == oid \in DOMAIN collection /\ new # old
           IN /\ Await(r, [NoStored EXCEPT !.op = "updateOne",
                             !.count = IF modified THEN 1 ELSE 0])
              /\ collection' = IF modified THEN [collection EXCEPT ![oid] = new]
                               ELSE collection
              /\ lastPosted' = IF modified THEN Forget(lastPosted, oid) ELSE lastPosted
              /\ UNCHANGED <<inserted, deletedIds>>
     \/ /\ Await(r, Threw("updateOne"))
        /\ StoreUnchanged
  /\ UNCHANGED <<now, dbHandle, processEnv, client, probe,
               schemaHeap, validateErrors>>

\* deleteOne({_id})
delete(r) ==
  /\ req[r].pc = "handler" /\ req[r].route = DeleteRoute
  /\ \/ /\ dbHandle /\ ~CreateFromHexStringThrows(req[r].id)
        /\ LET oid == castObjectId(req[r].id)
               found == oid \in DOMAIN collection
           IN /\ Await(r, [NoStored EXCEPT !.op = "deleteOne",
                             !.count = IF found THEN 1 ELSE 0,
                             !.repeat = oid \in deletedIds])
              /\ collection' = [o \in DOMAIN collection \ {oid} |-> collection[o]]
              /\ deletedIds' = deletedIds \cup {oid}
              /\ lastPosted' = IF found THEN Forget(lastPosted, oid) ELSE lastPosted
              /\ UNCHANGED inserted
     \/ /\ Await(r, Threw("deleteOne"))
        /\ StoreUnchanged
  /\ UNCHANGED <<now, dbHandle, processEnv, client, probe,
               schemaHeap, validateErrors>>

(***************************************************************************)
(* The route handlers after their await: the response, or next(err).       *)
(***************************************************************************)
\* res.status(status).json(body)
Respond(r, status, body, isArray) ==
  [req[r] EXCEPT !.pc = "done", !.sent = @ + 1,
                 !.res = [NoRes EXCEPT !.status = status, !.by = "route", !.kind = "data",
                                       !.body = body, !.isArray = isArray]]

\* res.sendStatus(status)
sendStatus(r, status) ==
  [req[r] EXCEPT !.pc = "done", !.sent = @ + 1,
                 !.res = [NoRes EXCEPT !.status = status, !.by = "route",
                                       !.kind = "statusText"]]

\* next(createError(status, text)); status 0 is an error without a status
NextError(r, status, message) ==
  [req[r] EXCEPT !.pc = "error", !.err = [status |-> status, message |-> message]]

\* the message of an exception of the driver or the runtime
ThrownMessage == Plain("thrown by the store call")

JsonDocs(docs) == [i \in 1..Len(docs) |-> JsonDoc(docs[i].oid, docs[i].props)]

\* mutant: the handler has no try/catch; the rejection of the store call is
\* left unhandled and no response is written
ListHandlerNoCatch(r) ==
  /\ req[r].pc = "await" /\ req[r].route = ListRoute
  /\ req' = [req EXCEPT ![r] =
       IF req[r].stored.threw THEN [@ EXCEPT !.pc = "rejected"]
       ELSE Respond(r, 200, JsonDocs(req[r].stored.docs), TRUE)]
  /\ UNCHANGED <<now, dbHandle, processEnv, client, probe,
               schemaHeap, validateErrors>>
  /\ StoreUnchanged

\* mutant: an empty result is reported as not found
ListHandlerEmpty404(r) ==
  /\ req[r].pc = "await" /\ req[r].route = ListRoute
  /\ req' = [req EXCEPT ![r] =
       IF req[r].stored.threw THEN NextError(r, 0, ThrownMessage)
       ELSE IF req[r].stored.docs = <<>> THEN NextError(r, 404, Plain("Todo not found"))
       ELSE Respond(r, 200, JsonDocs(req[r].stored.docs), TRUE)]
  /\ UNCHANGED <<now, dbHandle, processEnv, client, probe,
               schemaHeap, validateErrors>>
  /\ StoreUnchanged

ListHandler(r) ==
  /\ req[r].pc = "await" /\ req[r].route = ListRoute
  /\ req' = [req EXCEPT ![r] =
       IF req[r].stored.threw THEN NextError(r, 0, ThrownMessage)
       ELSE Respond(r, 200, JsonDocs(req[r].stored.docs), TRUE)]
  /\ UNCHANGED <<now, dbHandle, processEnv, client, probe,
               schemaHeap, validateErrors>>
  /\ StoreUnchanged

\* mutant: the handler does not test for null
GetHandlerNoNullCheck(r) ==
  /\ req[r].pc = "await" /\ req[r].route = GetRoute
  /\ req' = [req EXCEPT ![r] =
       IF req[r].stored.threw THEN NextError(r, 0, ThrownMessage)
       ELSE Respond(r, 200, JsonDocs(req[r].stored.docs), FALSE)]
  /\ UNCHANGED <<now, dbHandle, processEnv, client, probe,
               schemaHeap, validateErrors>>
  /\ StoreUnchanged

GetHandler(r) ==
  /\ req[r].pc = "await" /\ req[r].route = GetRoute
  /\ req' = [req EXCEPT ![r] =
       IF req[r].stored.threw THEN NextError(r, 0, ThrownMessage)
       ELSE IF req[r].stored.docs = <<>> THEN NextError(r, 404, Plain("Todo not found"))
       ELSE Respond(r, 200, JsonDocs(req[r].stored.docs), FALSE)]
  /\ UNCHANGED <<now, dbHandle, processEnv, client, probe,
               schemaHeap, validateErrors>>
  /\ StoreUnchanged

\* mutant: the response carries the body as validated, without date_created
PostHandlerEchoBody(r) ==
  /\ req[r].pc = "await" /\ req[r].route = PostRoute
  /\ IF req[r].stored.threw
       THEN /\ req' = [req EXCEPT ![r] = NextError(r, 0, ThrownMessage)]
            /\ UNCHANGED lastPosted
     ELSE LET newTodo == JsonDoc(req[r].stored.docs[1].oid,
                                 [f \in DOMAIN req[r].body.props \ {"date_created"} |->
                                    req[r].body.props[f]]) IN
          /\ req' = [req EXCEPT ![r] = Respond(r, 201, <<newTodo>>, FALSE)]
          /\ lastPosted' = <<newTodo>>
  /\ UNCHANGED <<now, dbHandle, collection, inserted, deletedIds, processEnv, client, probe,
               schemaHeap, validateErrors>>

\* res.status(201).json({_id: result.insertedId, ...todo})
PostHandler(r) ==
  /\ req[r].pc = "await" /\ req[r].route = PostRoute
  /\ IF req[r].stored.threw
       THEN /\ req' = [req EXCEPT ![r] = NextError(r, 0, ThrownMessage)]
            /\ UNCHANGED lastPosted
     ELSE LET newTodo == JsonDoc(req[r].stored.docs[1].oid, req[r].body.props) IN
          /\ req' = [req EXCEPT ![r] = Respond(r, 201, <<newTodo>>, FALSE)]
          /\ lastPosted' = <<newTodo>>
  /\ UNCHANGED <<now, dbHandle, collection, inserted, deletedIds, processEnv, client, probe,
               schemaHeap, validateErrors>>

\* mutant: the handler ignores the result of update
PutHandlerAlways204(r) ==
  /\ req[r].pc = "await" /\ req[r].route = PutRoute
  /\ req' = [req EXCEPT ![r] =
       IF req[r].stored.threw THEN NextError(r, 0, ThrownMessage)
       ELSE sendStatus(r, 204)]
  /\ UNCHANGED <<now, dbHandle, processEnv, client, probe,
               schemaHeap, validateErrors>>
  /\ StoreUnchanged

PutHandler(r) ==
  /\ req[r].pc = "await" /\ req[r].route = PutRoute
  /\ req' = [req EXCEPT ![r] =
       IF req[r].stored.threw THEN NextError(r, 0, ThrownMessage)
       ELSE IF ~(req[r].stored.count > 0)
         THEN NextError(r, 404, Plain("Todo not found or not modified"))
       ELSE sendStatus(r, 204)]
  /\ UNCHANGED <<now, dbHandle, processEnv, client, probe,
               schemaHeap, validateErrors>>
  /\ StoreUnchanged

\* mutant: the handler ignores the result of delete
DeleteHandlerAlways204(r) ==
  /\ req[r].pc = "await" /\ req[r].route = DeleteRoute
  /\ req' = [req EXCEPT ![r] =
       IF req[r].stored.threw THEN NextError(r, 0, ThrownMessage)
       ELSE sendStatus(r, 204)]
  /\ UNCHANGED <<now, dbHandle, processEnv, client, probe,
               schemaHeap, validateErrors>>
  /\ StoreUnchanged

DeleteHandler(r) ==
  /\ req[r].pc = "await" /\ req[r].route = DeleteRoute
  /\ req' = [req EXCEPT ![r] =
       IF req[r].stored.threw THEN NextError(r, 0, ThrownMessage)
       ELSE IF ~(req[r].stored.count > 0) THEN NextError(r, 404, Plain("Todo not found"))
       ELSE sendStatus(r, 204)]
  /\ UNCHANGED <<now, dbHandle, processEnv, client, probe,
               schemaHeap, validateErrors>>
  /\ StoreUnchanged

(***************************************************************************)
(* The diagnostic routes and the 404 handler of app.js.                    *)
(***************************************************************************)
\* await db._db.command({ping: 1}), inside the try of the health check
ping(r) ==
  /\ req[r].pc = "handler" /\ req[r].route = HealthRoute
  /\ \/ /\ dbHandle
        /\ Await(r, [NoStored EXCEPT !.op = "ping", !.count = 1])
     \/ Await(r, Threw("ping"))
  /\ UNCHANGED <<now, dbHandle, processEnv, client, probe,
               schemaHeap, validateErrors>>
  /\ StoreUnchanged

\* mutant: the health check hands the failure to next(err)
health_checkNext(r) ==
  /\ req[r].pc = "await" /\ req[r].route = HealthRoute
  /\ req' = [req EXCEPT ![r] =
       IF req[r].stored.threw THEN NextError(r, 0, ThrownMessage)
       ELSE sendStatus(r, 200)]
  /\ UNCHANGED <<now, dbHandle, processEnv, client, probe,
               schemaHeap, validateErrors>>
  /\ StoreUnchanged

\* the health check after the ping: sendStatus(200), or sendStatus(503) in catch
health_check(r) ==
  /\ req[r].pc = "await" /\ req[r].route = HealthRoute
  /\ req' = [req EXCEPT ![r] =
       IF req[r].stored.threw THEN sendStatus(r, 503)
       ELSE sendStatus(r, 200)]
  /\ UNCHANGED <<now, dbHandle, processEnv, client, probe,
               schemaHeap, validateErrors>>
  /\ StoreUnchanged

\* the routes that exist in development and test only
DiagnosticsEnabled(e) == ~(environment(e) # "development" /\ environment(e) # "test")

ThrowErrorMessage == Plain("Uncaught test exception from /v1/throw_error")

\* the handler throws synchronously; the router passes the exception to next
throw_error(r) ==
  /\ req[r].pc = "handler" /\ req[r].route = ThrowRoute
  /\ req' = [req EXCEPT ![r] =
       [(IF ~DiagnosticsEnabled(processEnv) THEN sendStatus(r, 404)
         ELSE NextError(r, 0, ThrowErrorMessage))
        EXCEPT !.trace = Append(@, "handler")]]
  /\ UNCHANGED <<now, dbHandle, processEnv, client, probe,
               schemaHeap, validateErrors>>
  /\ StoreUnchanged

auth_test(r) ==
  /\ req[r].pc = "handler" /\ req[r].route = AuthTestRoute
  /\ req' = [req EXCEPT ![r] =
       [(IF ~DiagnosticsEnabled(processEnv) THEN sendStatus(r, 404)
         ELSE Respond(r, 200, <<[authenticated_user |-> req[r].user]>>, FALSE))
        EXCEPT !.trace = Append(@, "handler")]]
  /\ UNCHANGED <<now, dbHandle, processEnv, client, probe,
               schemaHeap, validateErrors>>
  /\ StoreUnchanged

\* app.use((req, res, next) => next(createError(404)))
NotFoundHandler(r) ==
  /\ req[r].pc = "handler" /\ req[r].route = UnmatchedRoute
  /\ req' = [req EXCEPT ![r] =
       [NextError(r, 404, Plain("Not Found")) EXCEPT !.trace = Append(@, "notFound")]]
  /\ UNCHANGED <<now, dbHandle, processEnv, client, probe,
               schemaHeap, validateErrors>>
  /\ StoreUnchanged

(***************************************************************************)
(* The central error handler of app.js.                                    *)
(***************************************************************************)
\* the error the HTML branch renders outside development
GenericError == [status |-> 0, message |-> Plain("Your request is in error.")]

\* getErrorTemplateParams(err, req); status_code 0 is undefined
getErrorTemplateParams(e, err, stack, request) ==
  [title |-> "serviceName - Error",
   status_code |-> err.status,
   heading |-> "serviceName - Error",
   request |-> [route |-> request.route, id |-> request.id,
                scheme |-> IF useSSL(e) THEN "https" ELSE "http",
                host |-> serviceUrl(e),
                port |-> IF useSSL(e) THEN httpsPort ELSE httpPort],
   message |-> err.message,
   stack |-> stack]

\* err.status || 500
StatusOf(err) == IF err.status # 0 THEN err.status ELSE 500

\* mutant: the HTML branch takes the status from the error it renders
ErrorHandlerRenderedStatus(r) ==
  /\ req[r].pc = "error"
  /\ req' = [req EXCEPT ![r] =
       IF req[r].accept = "json"
         THEN [@ EXCEPT !.pc = "done", !.sent = @ + 1,
                 !.res = [NoRes EXCEPT
                            !.status = StatusOf(req[r].err),
                            !.by = "errorHandler", !.kind = "envelope",
                            !.message = req[r].err.message,
                            !.stack = IF AppEnv(processEnv) = "development"
                                        THEN "err.stack" ELSE "absent"]]
       ELSE LET dev == environment(processEnv) = "development"
                error == IF dev THEN req[r].err ELSE GenericError
                template_params ==
                  getErrorTemplateParams(processEnv, error,
                                         IF dev THEN "err.stack" ELSE "[]", req[r])
            IN [@ EXCEPT !.pc = "done", !.sent = @ + 1,
                 !.res = [NoRes EXCEPT
                            !.status = StatusOf(error),
                            !.by = "errorHandler", !.kind = "page",
                            !.message = template_params.message,
                            !.stack = template_params.stack,
                            !.page = <<template_params>>]]]
  /\ UNCHANGED <<now, dbHandle, processEnv, client, probe,
               schemaHeap, validateErrors>>
  /\ StoreUnchanged

ErrorHandler(r) ==
  /\ req[r].pc = "error"
  /\ req' = [req EXCEPT ![r] =
       IF req[r].accept = "json"
         THEN [@ EXCEPT !.pc = "done", !.sent = @ + 1,
                 !.res = [NoRes EXCEPT
                            !.status = StatusOf(req[r].err),
                            !.by = "errorHandler", !.kind = "envelope",
                            !.message = req[r].err.message,
                            !.stack = IF AppEnv(processEnv) = "development"
                                        THEN "err.stack" ELSE "absent"]]
       ELSE LET dev == environment(processEnv) = "development"
                error == IF dev THEN req[r].err ELSE GenericError
                template_params ==
                  getErrorTemplateParams(processEnv, error,
                                         IF dev THEN "err.stack" ELSE "[]", req[r])
            IN [@ EXCEPT !.pc = "done", !.sent = @ + 1,
                 !.res = [NoRes EXCEPT
                            !.status = StatusOf(req[r].err),
                            !.by = "errorHandler", !.kind = "page",
                            !.message = template_params.message,
                            !.stack = template_params.stack,
                            !.page = <<template_params>>]]]
  /\ UNCHANGED <<now, dbHandle, processEnv, client, probe,
               schemaHeap, validateErrors>>
  /\ StoreUnchanged

Next ==
  \/ Tick
  \/ connect
  \/ \E r \in Slots :
       \/ Arrive(r)
       \/ validateObjectIdParamHandler(r)
       \/ authenticate_user(r)
       \/ SchemaGate(r)
       \/ listAll(r)
       \/ getById(r)
       \/ create(r)
       \/ update(r)
       \/ delete(r)
       \/ ListHandler(r)
       \/ GetHandler(r)
       \/ PostHandler(r)
       \/ PutHandler(r)
       \/ DeleteHandler(r)
       \/ ErrorHandler(r)
       \/ Finish(r)

Spec == Init /\ [][Next]_vars

\* the routes with a gate, under every body of GateBodies
NextGate ==
  \/ connect
  \/ \E r \in Slots :
       \/ ArriveGated(r)
       \/ validateObjectIdParamHandler(r)
       \/ authenticate_user(r)
       \/ SchemaGate(r)
       \/ create(r)
       \/ update(r)
       \/ PostHandler(r)
       \/ PutHandler(r)
       \/ ErrorHandler(r)
       \/ Finish(r)

SpecGate == Init /\ [][NextGate]_vars

(***************************************************************************)
(* The whole application: the todo and diagnostic routes and unmatched     *)
(* paths, for clients that accept JSON and clients that do not, under      *)
(* several configurations of the environment.                              *)
(***************************************************************************)
AppEnvs ==
  {DefaultEnv,
   [DefaultEnv EXCEPT !.NODE_ENV = SetTo("")],
   [DefaultEnv EXCEPT !.NODE_ENV = SetTo("development")],
   [DefaultEnv EXCEPT !.NODE_ENV = SetTo("test"), !.SERVICE_URL = SetTo("api.example.com")],
   [DefaultEnv EXCEPT !.NODE_ENV = SetTo("production"), !.USE_SSL = SetTo("true"),
                      !.SERVICE_URL = SetTo("api.example.com")],
   [DefaultEnv EXCEPT !.NODE_ENV = SetTo("staging"), !.USE_SSL = SetTo("false")]}

AppHeaders ==
  {[accept |-> "json", host |-> "api.example.com"],
   [accept |-> "html", host |-> "api.example.com"],
   [accept |-> "html", host |-> "evil.example"]}

AppBodies ==
  {ValidTodo(Num(1), Bool(FALSE)),
   [obj |-> TRUE, props |-> [is_complete |-> Bool(TRUE)]],
   [obj |-> TRUE, props |-> [priority |-> Str("high")]]}

InitApp ==
  /\ InitStore
  /\ processEnv \in AppEnvs
  /\ client = MongoClient(uri(processEnv))

ArriveApp(r) == Route(r, AppRoutes, AppBodies, AppDocs, AppHeaders)

NextApp ==
  \/ connect
  \/ \E r \in Slots :
       \/ ArriveApp(r)
       \/ validateObjectIdParamHandler(r)
       \/ authenticate_user(r)
       \/ SchemaGate(r)
       \/ listAll(r)
       \/ getById(r)
       \/ create(r)
       \/ update(r)
       \/ delete(r)
       \/ ListHandler(r)
       \/ GetHandler(r)
       \/ PostHandler(r)
       \/ PutHandler(r)
       \/ DeleteHandler(r)
       \/ ping(r)
       \/ health_check(r)
       \/ throw_error(r)
       \/ auth_test(r)
       \/ NotFoundHandler(r)
       \/ ErrorHandler(r)
       \/ Finish(r)

SpecApp == InitApp /\ [][NextApp]_vars

(***************************************************************************)
(* The todo routes and the health check when every ready callback runs:    *)
(* the event loop takes each step of a request under way, and a store call *)
(* resolves or rejects (the driver's timeouts).                            *)
(***************************************************************************)
ArriveLive(r) == Route(r, Routes \cup {HealthRoute}, AppBodies, AppDocs, AppHeaders)

RequestStep(r) ==
  \/ validateObjectIdParamHandler(r)
  \/ authenticate_user(r)
  \/ SchemaGate(r)
  \/ listAll(r)
  \/ getById(r)
  \/ create(r)
  \/ update(r)
  \/ delete(r)
  \/ ListHandler(r)
  \/ GetHandler(r)
  \/ PostHandler(r)
  \/ PutHandler(r)
  \/ DeleteHandler(r)
  \/ ping(r)
  \/ health_check(r)
  \/ ErrorHandler(r)

NextLive ==
  \/ connect
  \/ \E r \in Slots :
       \/ ArriveLive(r)
       \/ RequestStep(r)
       \/ Finish(r)

SpecLive == Init /\ [][NextLive]_vars /\ \A r \in Slots : WF_vars(RequestStep(r))

(***************************************************************************)
(* The construction of the Db singleton under every setting of the DB_     *)
(* variables.                                                              *)
(***************************************************************************)
FullUri == <<"mongodb+srv://", "db.example", "/", "app">>

DbEnvs ==
  {[DefaultEnv EXCEPT !.DB_URI = u, !.DB_USER_NAME = n, !.DB_PASSWORD = w,
                      !.DB_URL = h, !.DB_PORT = q] :
     u \in {UnsetChars, SetTo(<<>>), SetTo(<<" ", "\t">>), SetTo(FullUri),
            SetTo(<<" ">> \o FullUri \o <<"\n">>)},
     n \in {UnsetChars, SetTo(<<"u">>), SetTo(<<"u", "@", "x">>)},
     w \in {UnsetChars, SetTo(<<"p">>), SetTo(<<"p", ":", "/">>)},
     h \in {UnsetChars, SetTo(<<"db.internal">>)},
     q \in {UnsetChars, SetTo(<<"27018">>)}}

InitDb ==
  /\ InitStore
  /\ processEnv \in DbEnvs
  /\ client = NoClient

\* const db = new Db()
Db ==
  /\ ~client.constructed
  /\ client' = MongoClient(uri(processEnv))
  /\ UNCHANGED <<req, collection, inserted, now, dbHandle, deletedIds, lastPosted,
                 processEnv, probe, schemaHeap, validateErrors>>

NextDb ==
  \/ Db
  \/ connect

SpecDb == InitDb /\ [][NextDb]_vars

(***************************************************************************)
(* getSchemaValidator under every schema name and mode, and the gate it    *)
(* returns under every body.                                               *)
(***************************************************************************)
SchemaNames == {"todo", "user", "", "Todo", "toString", "constructor"}

Modes == {"strict", "partial"}

\* the calls of the factory that are followed
MaxGates == 3

\* a route is registered: the factory is called, and the gate it returns is
\* the one examined from then on
MakeGate ==
  /\ Len(schemaHeap) <= MaxGates
  /\ \E schemaType \in SchemaNames, mode \in Modes :
       /\ probe' = [NoProbe EXCEPT !.made = TRUE, !.schemaType = schemaType,
                                   !.mode = mode,
                                   !.gate = <<getSchemaValidator(schemaType, mode)>>]
       /\ schemaHeap' = HeapAfter(schemaType, mode)
  /\ UNCHANGED <<req, collection, inserted, now, dbHandle, deletedIds, lastPosted,
                 processEnv, client, validateErrors>>

\* a request reaches the gate; each request is judged on its own
AskGate ==
  /\ probe.made /\ ~probe.gate[1].threw
  /\ \E b \in GateBodies :
       probe' = [probe EXCEPT !.asked = TRUE, !.body = b,
                              !.outcome = <<GateOutcome(probe.gate[1], b)>>]
  /\ UNCHANGED <<req, collection, inserted, now, dbHandle, deletedIds, lastPosted,
                 processEnv, client, schemaHeap, validateErrors>>

NextValidator ==
  \/ MakeGate
  \/ AskGate

SpecValidator == Init /\ [][NextValidator]_vars

(***************************************************************************)
(* The todo routes under bodies that try to reach the stored documents:    *)
(* a client-supplied date_created, undeclared fields, values that are      *)
(* coerced, a body that is not an object.                                  *)
(***************************************************************************)
ClientDate == Str("2020-01-01")

StoreBodies ==
  {ValidTodo(Num(1), Bool(FALSE)),
   ValidTodo(Str("2"), Str("true")),
   [obj |-> TRUE,
    props |-> Merge(ValidTodo(Num(1), Bool(FALSE)).props, [date_created |-> ClientDate])],
   [obj |-> TRUE, props |-> [date_created |-> ClientDate]],
   [obj |-> TRUE, props |-> [priority |-> Str("3")]],
   [obj |-> TRUE, props |-> [task |-> Null, extra |-> Str("nope")]],
   [obj |-> TRUE, props |-> [is_complete |-> Num(1), assigned_to |-> Num(2)]],
   ArrayBody}

ArriveStore(r) == Route(r, Routes, StoreBodies, StoreDocs, JsonHeaders)

NextStore ==
  \/ Tick
  \/ connect
  \/ \E r \in Slots :
       \/ ArriveStore(r)
       \/ validateObjectIdParamHandler(r)
       \/ authenticate_user(r)
       \/ SchemaGate(r)
       \/ listAll(r)
       \/ getById(r)
       \/ create(r)
       \/ update(r)
       \/ delete(r)
       \/ ListHandler(r)
       \/ GetHandler(r)
       \/ PostHandler(r)
       \/ PutHandler(r)
       \/ DeleteHandler(r)
       \/ ErrorHandler(r)
       \/ Finish(r)

SpecStore == Init /\ [][NextStore]_vars

(***************************************************************************)
(* Two requests under way at once on the routes with a gate: the event     *)
(* loop interleaves their callbacks, and both POSTs (both PUTs) run the    *)
(* same compiled check, whose errors property they share.                  *)
(***************************************************************************)
ConcSlots == {"r1", "r2"}

ConcBodies ==
  {ValidTodo(Num(1), Bool(FALSE)),
   [obj |-> TRUE, props |-> [priority |-> Str("high")]],
   [obj |-> TRUE, props |-> [task |-> Str("a"), extra |-> Str("nope")]]}

InitConc ==
  /\ req = [r \in ConcSlots |-> IdleReq]
  /\ collection = [o \in {} |-> EmptyProps]
  /\ inserted = 0
  /\ now = 0
  /\ dbHandle = FALSE
  /\ deletedIds = {}
  /\ lastPosted = <<>>
  /\ probe = NoProbe
  /\ schemaHeap = RegisteredHeap
  /\ validateErrors = NoErrors
  /\ processEnv = DefaultEnv
  /\ client = MongoClient(uri(processEnv))

ArriveConc(r) == Route(r, {PostRoute, PutRoute}, ConcBodies, MaxDocs, JsonHeaders)

NextConc ==
  \/ connect
  \/ \E r \in ConcSlots :
       \/ ArriveConc(r)
       \/ validateObjectIdParamHandler(r)
       \/ authenticate_user(r)
       \/ SchemaGate(r)
       \/ create(r)
       \/ update(r)
       \/ PostHandler(r)
       \/ PutHandler(r)
       \/ ErrorHandler(r)
       \/ Finish(r)

SpecConc == InitConc /\ [][NextConc]_vars

(***************************************************************************)
(* The todo routes under every string of IdStrings as the :id parameter.   *)
(***************************************************************************)
ArriveIds(r) == RouteWith(r, Routes, IdStrings, AppBodies, AppDocs, JsonHeaders)

NextIds ==
  \/ connect
  \/ \E r \in Slots :
       \/ ArriveIds(r)
       \/ validateObjectIdParamHandler(r)
       \/ authenticate_user(r)
       \/ SchemaGate(r)
       \/ listAll(r)
       \/ getById(r)
       \/ create(r)
       \/ update(r)
       \/ delete(r)
       \/ ListHandler(r)
       \/ GetHandler(r)
       \/ PostHandler(r)
       \/ PutHandler(r)
       \/ DeleteHandler(r)
       \/ ErrorHandler(r)
       \/ Finish(r)

SpecIds == Init /\ [][NextIds]_vars

(***************************************************************************)
(* Vocabulary of the properties.                                           *)
(***************************************************************************)
InTrace(r, stage) == \E i \in 1..Len(req[r].trace) : req[r].trace[i] = stage

\* the text of a message contains the phrase
HasReason(message, reason) == \E i \in 1..Len(message) : message[i].reason = reason

\* the request was refused with this status and a message containing the phrase:
\* the error is on its way to the error handler or has been sent by it
Refused(r, status, reason) ==
  \/ /\ req[r].pc = "error"
     /\ req[r].err.status = status
     /\ HasReason(req[r].err.message, reason)
  \/ /\ req[r].pc = "done"
     /\ req[r].res.by = "errorHandler"
     /\ req[r].res.status = status
     /\ HasReason(req[r].res.message, reason)

RequiredFields == {"task", "priority", "assigned_to", "is_complete"}

\* the body as sent lacks a required field
LacksRequired(b) == \E f \in RequiredFields : f \notin DOMAIN b.props

\* the body as sent has a field the schema does not declare
HasUndeclared(b) == \E f \in DOMAIN b.props : f \notin RequiredFields

\* the body as sent satisfies the todo schema, coercions allowed; strict also
\* demands every required field
SatisfiesTodo(b, strict) ==
  /\ b.obj
  /\ DOMAIN b.props \subseteq RequiredFields
  /\ strict => RequiredFields \subseteq DOMAIN b.props
  /\ "task" \in DOMAIN b.props => b.props["task"].t \in {"string", "number", "boolean", "null"}
  /\ "assigned_to" \in DOMAIN b.props =>
       b.props["assigned_to"].t \in {"string", "number", "boolean", "null"}
  /\ "priority" \in DOMAIN b.props =>
       \/ b.props["priority"].t \in {"number", "boolean", "null"}
       \/ b.props["priority"] \in {Str("1"), Str("2"), Str("3")}
  /\ "is_complete" \in DOMAIN b.props =>
       \/ b.props["is_complete"].t \in {"boolean", "null"}
       \/ b.props["is_complete"] \in {Str("true"), Str("false"), Num(0), Num(1)}

\* a 24-character hexadecimal string
WellFormedId(id) ==
  /\ Len(id) = 24
  /\ \A i \in 1..Len(id) :
       id[i] \in {"0", "1", "2", "3", "4", "5", "6", "7", "8", "9", "a", "b", "c",
                  "d", "e", "f", "A", "B", "C", "D", "E", "F"}

\* the handler of the route has been entered, or is the next stage to run
HandlerReached(r) ==
  \/ req[r].pc \in {"handler", "await"}
  \/ InTrace(r, "handler")
  \/ req[r].stored.op # "none"

(***************************************************************************)
(* C1.  On POST /v1/todo and PUT /v1/todo/:id the resource handler (and    *)
(* so the insert or update) is reached only after the gate of the same     *)
(* request has run and let it pass; a request whose body fails validation  *)
(* never reaches the handler.                                              *)
(***************************************************************************)
C1_HandlerOnlyAfterGate ==
  \A r \in Slots :
    (req[r].pc # "idle" /\ HasGate(req[r].route)) =>
      /\ HandlerReached(r) =>
           /\ InTrace(r, "gate")
           /\ \A i \in 1..Len(req[r].trace) :
                req[r].trace[i] = "handler" =>
                  \E j \in 1..(i - 1) : req[r].trace[j] = "gate"
           /\ SatisfiesTodo(req[r].raw, req[r].route = PostRoute)
           /\ req[r].err.status # 422
      /\ ~SatisfiesTodo(req[r].raw, req[r].route = PostRoute) =>
           /\ ~HandlerReached(r)
           /\ req[r].stored = NoStored

C1_Witness ==
  \E r \in Slots :
    /\ req[r].route = PostRoute
    /\ req[r].trace = <<"auth", "gate", "handler">>
    /\ req[r].stored.op = "insertOne" /\ req[r].stored.count = 1

(***************************************************************************)
(* C2.  As claimed: every POST body that lacks a required field is refused *)
(* with 422 and a message containing "required property".                  *)
(***************************************************************************)
C2_Original ==
  \A r \in Slots :
    (req[r].route = PostRoute /\ InTrace(r, "gate") /\ LacksRequired(req[r].raw)) =>
      Refused(r, 422, "must have required property")

(***************************************************************************)
(* C2, amended.  Every POST body that is a JSON object lacking a required  *)
(* field is refused with 422 and a message containing "required property"; *)
(* a body that is not an object (a JSON array) is refused with 422 and     *)
(* "must be object", without any "required property".                      *)
(***************************************************************************)
C2_MissingRequired ==
  \A r \in Slots :
    (req[r].route = PostRoute /\ InTrace(r, "gate")) =>
      /\ (req[r].raw.obj /\ LacksRequired(req[r].raw)) =>
           Refused(r, 422, "must have required property")
      /\ ~req[r].raw.obj =>
           /\ Refused(r, 422, "must be object")
           /\ ~Refused(r, 422, "must have required property")

C2_Witness ==
  \E r \in Slots :
    /\ req[r].route = PostRoute /\ req[r].pc = "done"
    /\ req[r].raw = [obj |-> TRUE, props |-> [task |-> Str("a")]]
    /\ req[r].res.status = 422
    /\ Len(req[r].res.message) = 3

(***************************************************************************)
(* C3.  A body with a field outside task, priority, assigned_to,           *)
(* is_complete is refused with 422 and a message containing "additional    *)
(* properties", on POST (strict) and on PUT (partial) alike.               *)
(***************************************************************************)
C3_AdditionalProperties ==
  \A r \in Slots :
    (HasGate(req[r].route) /\ InTrace(r, "gate") /\ HasUndeclared(req[r].raw)) =>
      Refused(r, 422, "must NOT have additional properties")

C3_Witness ==
  \E r \in Slots :
    /\ req[r].route = PutRoute /\ req[r].pc = "done"
    /\ req[r].raw = [obj |-> TRUE, props |-> [is_complete |-> Bool(FALSE), extra |-> Str("nope")]]
    /\ req[r].res.status = 422
    /\ req[r].res.message = <<AjvError("data", "must NOT have additional properties", "extra")>>

(***************************************************************************)
(* C4.  A body whose priority is a string that is not a number is refused  *)
(* with 422 and a message containing "must be number"; a priority that is  *)
(* a numeric string is coerced to the number and raises no such error, so  *)
(* a body that is otherwise valid passes the gate.                         *)
(***************************************************************************)
NumericStrings == {"1", "2", "3"}

HasStringPriority(b) ==
  b.obj /\ "priority" \in DOMAIN b.props /\ b.props["priority"].t = "string"

C4_PriorityStrings ==
  \A r \in Slots :
    (HasGate(req[r].route) /\ InTrace(r, "gate") /\ HasStringPriority(req[r].raw)) =>
      IF req[r].raw.props["priority"].s \notin NumericStrings
        THEN Refused(r, 422, "must be number")
      ELSE /\ ~Refused(r, 422, "must be number")
           /\ req[r].body.props["priority"].t = "number"
           /\ NumberToString(req[r].body.props["priority"].n) = req[r].raw.props["priority"].s
           /\ SatisfiesTodo(req[r].raw, req[r].route = PostRoute) => HandlerReached(r)

C4_Witness ==
  \E r \in Slots :
    /\ req[r].route = PostRoute /\ req[r].pc = "done"
    /\ req[r].raw.obj /\ DOMAIN req[r].raw.props = RequiredFields
    /\ req[r].raw.props["priority"] = Str("2")
    /\ req[r].res.status = 201
    /\ req[r].res.body[1].props["priority"] = Num(2)

C4_WitnessRefused ==
  \E r \in Slots :
    /\ req[r].route = PostRoute /\ req[r].pc = "done"
    /\ req[r].raw.obj /\ DOMAIN req[r].raw.props = RequiredFields
    /\ req[r].raw.props["priority"] = Str("high")
    /\ req[r].res.status = 422
    /\ req[r].res.message = <<AjvError("priority", "must be number", "type")>>

(***************************************************************************)
(* C5.  On GET, PUT and DELETE /v1/todo/:id an id that is not a            *)
(* 24-character hex string is answered by the parameter check with 400     *)
(* "Invalid ObjectId" before authenticate_user, the gate or the handler    *)
(* run: no later stage is entered, the body is left as sent, no store call *)
(* is made; a PUT with such an id and an invalid body gets 400, not 422.   *)
(***************************************************************************)
C5_MalformedIdShortCircuits ==
  \A r \in Slots :
    (req[r].pc # "idle" /\ HasIdParam(req[r].route) /\ ~WellFormedId(req[r].id)) =>
      /\ req[r].user = ""
      /\ req[r].body = req[r].raw
      /\ req[r].stored = NoStored
      /\ req[r].err = NoErr
      /\ \/ req[r].pc = "param" /\ req[r].trace = <<>>
         \/ /\ req[r].pc = "done"
            /\ req[r].trace = <<"param">>
            /\ req[r].res.status = 400
            /\ req[r].res.by = "param"
            /\ req[r].res.message = Plain("Invalid ObjectId")

C5_Witness ==
  \E r \in Slots :
    /\ req[r].route = PutRoute /\ req[r].pc = "done"
    /\ ~WellFormedId(req[r].id) /\ Len(req[r].id) = 24
    /\ ~SatisfiesTodo(req[r].raw, FALSE)
    /\ req[r].res.status = 400

(***************************************************************************)
(* C6.  A PUT /v1/todo/:id with a well-formed id and a body that passes    *)
(* partial validation, whose updateOne the store answered, is answered 204 *)
(* exactly when modifiedCount > 0 and otherwise 404 "Todo not found or not *)
(* modified".                                                              *)
(***************************************************************************)
C6_PutStatus ==
  \A r \in Slots :
    (/\ req[r].route = PutRoute /\ req[r].pc = "done"
     /\ WellFormedId(req[r].id) /\ SatisfiesTodo(req[r].raw, FALSE)
     /\ ~req[r].stored.threw) =>
      /\ req[r].stored.op = "updateOne"
      /\ IF req[r].stored.count > 0
           THEN req[r].res.status = 204 /\ req[r].res.by = "route"
         ELSE /\ req[r].res.status = 404 /\ req[r].res.by = "errorHandler"
              /\ req[r].res.message = Plain("Todo not found or not modified")

C6_Witness ==
  \E r \in Slots :
    /\ req[r].route = PutRoute /\ req[r].pc = "done"
    /\ req[r].stored.op = "updateOne" /\ req[r].stored.count = 0
    /\ castObjectId(req[r].id) \in DOMAIN collection
    /\ req[r].res.status = 404

C6_Witness204 ==
  \E r \in Slots :
    /\ req[r].route = PutRoute /\ req[r].pc = "done"
    /\ req[r].stored.count = 1
    /\ req[r].res.status = 204

(***************************************************************************)
(* C7.  The update of a PUT changes at most the fields of its payload in   *)
(* the one document with the given id: the document keeps its _id, every   *)
(* field the payload omits (date_created among them) keeps its value, and  *)
(* every other document of the collection is unchanged.                    *)
(***************************************************************************)
UpdateStep(r) ==
  /\ req[r].pc = "handler" /\ req[r].route = PutRoute
  /\ req'[r].pc = "await"

C7_UpdateFrame ==
  [][\A r \in Slots :
       UpdateStep(r) =>
         LET oid == castObjectId(req[r].id)
             payload == DOMAIN req[r].body.props
         IN /\ DOMAIN collection' = DOMAIN collection
            /\ \A o \in DOMAIN collection \ {oid} : collection'[o] = collection[o]
            /\ oid \in DOMAIN collection =>
                 /\ DOMAIN collection'[oid] = DOMAIN collection[oid] \cup payload
                 /\ \A f \in DOMAIN collection[oid] \ payload :
                      collection'[oid][f] = collection[oid][f]
                 /\ "date_created" \in DOMAIN collection'[oid]
                 /\ collection'[oid]["date_created"] = collection[oid]["date_created"]]_vars

C7_Witness ==
  \E r \in Slots :
    /\ req[r].route = PutRoute /\ req[r].pc = "await"
    /\ req[r].stored.count = 1
    /\ DOMAIN req[r].body.props = {"is_complete"}
    /\ Cardinality(DOMAIN collection) = 2

(***************************************************************************)
(* C8.  A DELETE /v1/todo/:id whose deleteOne the store answered removes   *)
(* the document and is answered 204 exactly when the collection had a      *)
(* document with that id, and is otherwise answered 404 "Todo not found"   *)
(* and changes nothing; an id that was deleted before, with no insert      *)
(* since, gets 404 again, and is not in the collection.                    *)
(***************************************************************************)
DeleteStep(r) ==
  /\ req[r].pc = "handler" /\ req[r].route = DeleteRoute
  /\ req'[r].pc = "await" /\ ~req'[r].stored.threw

C8_DeleteAnswered ==
  \A r \in Slots :
    (req[r].route = DeleteRoute /\ req[r].stored.op = "deleteOne" /\ ~req[r].stored.threw) =>
      /\ castObjectId(req[r].id) \notin DOMAIN collection
      /\ req[r].stored.repeat => req[r].stored.count = 0
      /\ req[r].pc = "done" =>
           IF req[r].stored.count > 0
             THEN req[r].res.status = 204 /\ req[r].res.by = "route"
           ELSE /\ req[r].res.status = 404 /\ req[r].res.by = "errorHandler"
                /\ req[r].res.message = Plain("Todo not found")

C8_Delete ==
  /\ [](C8_DeleteAnswered /\ deletedIds \cap DOMAIN collection = {})
  /\ [][\A r \in Slots :
          DeleteStep(r) =>
            LET oid == castObjectId(req[r].id) IN
            /\ req'[r].stored.count > 0 <=> oid \in DOMAIN collection
            /\ req'[r].stored.repeat <=> oid \in deletedIds
            /\ DOMAIN collection' = DOMAIN collection \ {oid}
            /\ \A o \in DOMAIN collection' : collection'[o] = collection[o]]_vars

C8_Witness ==
  \E r \in Slots :
    /\ req[r].route = DeleteRoute /\ req[r].pc = "done"
    /\ req[r].stored.repeat
    /\ castObjectId(req[r].id) = GeneratedId(1)
    /\ inserted >= 1
    /\ req[r].res.status = 404

C8_Witness204 ==
  \E r \in Slots :
    /\ req[r].route = DeleteRoute /\ req[r].pc = "done"
    /\ req[r].res.status = 204
    /\ collection # <<>>

(***************************************************************************)
(* C9.  A GET /v1/todo/:id with a well-formed id whose findOne the store   *)
(* answered is answered 200 with the stored document exactly when the      *)
(* collection has a document with that id, whatever creates, updates and   *)
(* deletes came before, and is otherwise answered 404 "Todo not found".    *)
(***************************************************************************)
C9_GetById ==
  \A r \in Slots :
    (/\ req[r].route = GetRoute /\ req[r].pc = "done"
     /\ WellFormedId(req[r].id) /\ ~req[r].stored.threw) =>
      LET oid == castObjectId(req[r].id) IN
      IF oid \in DOMAIN collection
        THEN /\ req[r].res.status = 200 /\ req[r].res.by = "route"
             /\ ~req[r].res.isArray
             /\ req[r].res.body = <<JsonDoc(oid, collection[oid])>>
      ELSE /\ req[r].res.status = 404 /\ req[r].res.by = "errorHandler"
           /\ req[r].res.message = Plain("Todo not found")

C9_Witness ==
  \E r \in Slots :
    /\ req[r].route = GetRoute /\ req[r].pc = "done"
    /\ req[r].res.status = 200
    /\ deletedIds # {}
    /\ req[r].res.body[1].props["priority"] = Num(2)

C9_Witness404 ==
  \E r \in Slots :
    /\ req[r].route = GetRoute /\ req[r].pc = "done"
    /\ req[r].res.status = 404
    /\ castObjectId(req[r].id) \in deletedIds
    /\ inserted >= 1 /\ castObjectId(req[r].id) = GeneratedId(1)

(***************************************************************************)
(* C10.  A POST /v1/todo with a valid body is answered 201 with the        *)
(* coerced input fields plus the _id the driver assigned and the           *)
(* date_created the server assigned; a GET of that _id, while the          *)
(* document has not been updated or deleted, returns a document with the   *)
(* same _id, the same input fields and the same date_created.              *)
(***************************************************************************)
\* the input fields as the todo schema types them
CoercedInput(props) ==
  [f \in DOMAIN props |->
     CASE f = "priority" ->
            IF props[f].t = "string" THEN Num(ToNumber(props[f].s)) ELSE Num(props[f].n)
       [] f = "is_complete" ->
            Bool(props[f] \in {Str("true"), Num(1), Bool(TRUE)})
       [] OTHER -> props[f]]

C10_RoundTrip ==
  \A r \in Slots :
    /\ (/\ req[r].route = PostRoute /\ req[r].pc = "done"
        /\ SatisfiesTodo(req[r].raw, TRUE) /\ ~req[r].stored.threw) =>
         req[r].res.status = 201 /\ req[r].res.by = "route"
    /\ (req[r].route = PostRoute /\ req[r].pc = "done" /\ req[r].res.status = 201) =>
         /\ Len(req[r].res.body) = 1
         /\ \E k \in 1..inserted : req[r].res.body[1]._id = toHexString(GeneratedId(k))
         /\ DOMAIN req[r].res.body[1].props = RequiredFields \cup {"date_created"}
         /\ \A f \in RequiredFields :
              req[r].res.body[1].props[f] = CoercedInput(req[r].raw.props)[f]
         /\ \E ms \in 0..now :
              req[r].res.body[1].props["date_created"] = DateToJSON(DateVal(ms))
         /\ lastPosted = req[r].res.body
    /\ (/\ req[r].route = GetRoute /\ req[r].pc = "done" /\ ~req[r].stored.threw
        /\ lastPosted # <<>> /\ WellFormedId(req[r].id)
        /\ toHexString(castObjectId(req[r].id)) = lastPosted[1]._id) =>
         /\ req[r].res.status = 200
         /\ req[r].res.body = lastPosted

C10_Witness ==
  \E r \in Slots :
    /\ req[r].route = GetRoute /\ req[r].pc = "done"
    /\ req[r].res.status = 200
    /\ req[r].res.body = lastPosted
    /\ now = 1 /\ lastPosted[1].props["date_created"].n = 0
    /\ lastPosted[1].props["priority"] = Num(2)

(***************************************************************************)
(* C11.  A GET /v1/todo whose find the store answered is answered 200 with *)
(* an array holding exactly the documents of the collection, each once;    *)
(* with an empty collection the answer is 200 and the empty array.  The    *)
(* route never answers 404, and answers an error only when the store call  *)
(* threw.                                                                  *)
(***************************************************************************)
C11_ListAll ==
  \A r \in Slots :
    (req[r].route = ListRoute /\ req[r].pc = "done") =>
      /\ req[r].res.status # 404
      /\ req[r].res.status # 200 => req[r].stored.threw
      /\ ~req[r].stored.threw =>
           /\ req[r].res.status = 200 /\ req[r].res.by = "route"
           /\ req[r].res.isArray
           /\ Len(req[r].res.body) = Cardinality(DOMAIN collection)
           /\ {req[r].res.body[i] : i \in 1..Len(req[r].res.body)}
                = {[_id |-> toHexString(o), props |-> JsonProps(collection[o])] :
                     o \in DOMAIN collection}

C11_Witness ==
  \E r \in Slots :
    /\ req[r].route = ListRoute /\ req[r].pc = "done"
    /\ req[r].res.status = 200 /\ req[r].res.isArray
    /\ req[r].res.body = <<>>
    /\ collection = <<>> /\ inserted >= 1

C11_WitnessTwo ==
  \E r \in Slots :
    /\ req[r].route = ListRoute /\ req[r].pc = "done"
    /\ req[r].res.status = 200
    /\ Len(req[r].res.body) = 2

(***************************************************************************)
(* C12.  Whatever the central error handler answers, for a client that     *)
(* accepts JSON and for one that does not, has the status of the error     *)
(* when the error has one and 500 when it has none.  GET /v1/throw_error   *)
(* with NODE_ENV development or test is answered by the error handler with *)
(* 500, and for a JSON client with the envelope carrying the message of    *)
(* the thrown exception.                                                   *)
(***************************************************************************)
C12_ErrorStatus ==
  \A r \in Slots :
    /\ (req[r].pc = "done" /\ req[r].res.by = "errorHandler") =>
         /\ req[r].err.status # 0 => req[r].res.status = req[r].err.status
         /\ req[r].err.status = 0 => req[r].res.status = 500
         /\ req[r].res.kind = IF req[r].accept = "json" THEN "envelope" ELSE "page"
    /\ (/\ req[r].pc = "done" /\ req[r].route = ThrowRoute
        /\ processEnv.NODE_ENV \in {SetTo("development"), SetTo("test")}) =>
         /\ req[r].res.by = "errorHandler"
         /\ req[r].res.status = 500
         /\ req[r].accept = "json" =>
              /\ req[r].res.kind = "envelope"
              /\ req[r].res.message = Plain("Uncaught test exception from /v1/throw_error")

C12_Witness ==
  \E r \in Slots :
    /\ req[r].pc = "done" /\ req[r].route = GetRoute
    /\ req[r].accept = "html" /\ processEnv.NODE_ENV = SetTo("production")
    /\ req[r].err.status = 404
    /\ req[r].res.by = "errorHandler" /\ req[r].res.status = 404 /\ req[r].res.kind = "page"

C12_WitnessThrow ==
  \E r \in Slots :
    /\ req[r].pc = "done" /\ req[r].route = ThrowRoute
    /\ processEnv.NODE_ENV = SetTo("test") /\ req[r].accept = "json"
    /\ req[r].res.status = 500
    /\ req[r].res.message = ThrowErrorMessage

C12_WitnessStoreHtml ==
  \E r \in Slots :
    /\ req[r].pc = "done" /\ req[r].route = ListRoute
    /\ req[r].accept = "html" /\ req[r].stored.threw
    /\ req[r].res.status = 500 /\ req[r].res.kind = "page"

(***************************************************************************)
(* C13.  For a client that accepts JSON the error handler answers with the *)
(* envelope {error: {message}} whose message is the message of the error,  *)
(* and whenever the environment mode (env.environment) is not development  *)
(* the envelope carries no stack.                                          *)
(***************************************************************************)
C13_NoStackOutsideDevelopment ==
  \A r \in Slots :
    (req[r].pc = "done" /\ req[r].res.by = "errorHandler" /\ req[r].accept = "json") =>
      /\ req[r].res.kind = "envelope"
      /\ req[r].res.message = req[r].err.message
      /\ environment(processEnv) # "development" => req[r].res.stack = "absent"

(***************************************************************************)
(* C14.  For a client that does not accept JSON the error handler renders  *)
(* the error page with message equal to the message of the failing error   *)
(* and status_code equal to the status of the response, in every           *)
(* environment mode; the request URL is built from the configuration       *)
(* (scheme, SERVICE_URL, port), never from the Host header; the stack is   *)
(* the empty array whenever the environment mode is not development.       *)
(***************************************************************************)
C14_HtmlErrorPage ==
  \A r \in Slots :
    (req[r].pc = "done" /\ req[r].res.by = "errorHandler" /\ req[r].accept = "html") =>
      /\ req[r].res.kind = "page"
      /\ Len(req[r].res.page) = 1
      /\ LET page == req[r].res.page[1] IN
         /\ page.message = req[r].err.message
         /\ page.status_code = req[r].res.status
         /\ page.request.host = (IF processEnv.SERVICE_URL.set
                                   THEN processEnv.SERVICE_URL.val ELSE "")
         /\ page.request.scheme = (IF processEnv.USE_SSL = SetTo("true")
                                     THEN "https" ELSE "http")
         /\ page.request.port = (IF processEnv.USE_SSL = SetTo("true") THEN 4443 ELSE 3000)
         /\ page.request.route = req[r].route
         /\ environment(processEnv) # "development" => page.stack = "[]"

(***************************************************************************)
(* C15.  Every response with a status of 400 or more, on any route, is     *)
(* written by the central error handler, and for a client that accepts     *)
(* JSON it is the envelope {error: {message}}: no param handler, route     *)
(* handler or diagnostic endpoint writes an error response of its own.     *)
(***************************************************************************)
C15_SingleErrorPath ==
  \A r \in Slots :
    (req[r].pc = "done" /\ req[r].res.status >= 400) =>
      /\ req[r].res.by = "errorHandler"
      /\ req[r].accept = "json" => req[r].res.kind = "envelope"

(***************************************************************************)
(* C16.  Every request to a todo route is eventually answered, and         *)
(* answered exactly once: no response is written before the request is     *)
(* done and one has been written when it is.  A store call that throws or  *)
(* rejects (the handle is absent because connect never ran, the id cannot  *)
(* be cast, the driver fails) is passed to the central error handler as an *)
(* error without a status and answered 500.                                *)
(***************************************************************************)
C16_Answered ==
  \A r \in Slots :
    req[r].route \in Routes =>
      /\ req[r].sent = (IF req[r].pc = "done" THEN 1 ELSE 0)
      /\ (req[r].pc \in {"handler", "await"} /\ ~dbHandle /\ req[r].stored.op # "none") =>
           req[r].stored.threw
      /\ (req[r].stored.threw /\ req[r].pc = "error") =>
           req[r].err.status = 0 /\ req[r].err.message # <<>>
      /\ (req[r].stored.threw /\ req[r].pc = "done") =>
           req[r].res.by = "errorHandler" /\ req[r].res.status = 500

C16_ExactlyOneResponse ==
  /\ []C16_Answered
  /\ \A r \in Slots :
       (req[r].pc # "idle" /\ req[r].route \in Routes) ~> (req[r].pc = "done")

C16_Witness ==
  \E r \in Slots :
    /\ req[r].route = PutRoute /\ req[r].pc = "done"
    /\ ~dbHandle /\ req[r].stored.threw
    /\ req[r].sent = 1 /\ req[r].res.status = 500

(***************************************************************************)
(* C17.  As claimed: a PUT whose id matches a document of the collection   *)
(* is never answered 404, whatever valid partial payload it carries.       *)
(***************************************************************************)
C17_Original ==
  \A r \in Slots :
    (/\ req[r].route = PutRoute /\ req[r].pc = "done"
     /\ WellFormedId(req[r].id) /\ SatisfiesTodo(req[r].raw, FALSE)
     /\ castObjectId(req[r].id) \in DOMAIN collection) =>
      req[r].res.status # 404

(***************************************************************************)
(* C17, amended.  A 404 from the todo routes is returned only when the     *)
(* requested resource is absent or an update modified no document: a GET   *)
(* or DELETE gets 404 only for an id that is not in the collection, and a  *)
(* PUT whose id matches a document is answered 404 exactly when its valid  *)
(* partial payload changes none of the document's fields (an empty payload *)
(* or values equal to the stored ones), and 204 when it changes one.       *)
(***************************************************************************)
\* the payload, as coerced, sets a field of the document to a new value
Changes(doc, payload) ==
  \E f \in DOMAIN payload : f \notin DOMAIN doc \/ doc[f] # payload[f]

C17_NotFoundCauses ==
  \A r \in Slots :
    (req[r].route \in Routes /\ req[r].pc = "done") =>
      /\ req[r].res.status = 404 =>
           /\ req[r].res.by = "errorHandler"
           /\ req[r].route \in {GetRoute, PutRoute, DeleteRoute}
           /\ ~req[r].stored.threw
           /\ req[r].stored.count = 0
           /\ req[r].route = GetRoute => castObjectId(req[r].id) \notin DOMAIN collection
      /\ (req[r].route = PutRoute /\ req[r].stored.op = "updateOne" /\ ~req[r].stored.threw) =>
           (req[r].res.status = 404 <=> req[r].stored.count = 0)

C17_NotFound ==
  /\ []C17_NotFoundCauses
  /\ [][\A r \in Slots :
          (/\ req[r].pc = "handler" /\ req[r].route \in {PutRoute, DeleteRoute}
           /\ req'[r].pc = "await" /\ ~req'[r].stored.threw) =>
            LET oid == castObjectId(req[r].id) IN
            req'[r].stored.count = 0 <=>
              \/ oid \notin DOMAIN collection
              \/ /\ req[r].route = PutRoute
                 /\ ~Changes(collection[oid], req[r].body.props)]_vars

C17_Witness ==
  \E r \in Slots :
    /\ req[r].route = PutRoute /\ req[r].pc = "done"
    /\ req[r].stored.op = "updateOne" /\ ~req[r].stored.threw
    /\ castObjectId(req[r].id) \in DOMAIN collection
    /\ req[r].body.props = [is_complete |-> Bool(TRUE)]
    /\ req[r].res.status = 404
    /\ req[r].res.message = Plain("Todo not found or not modified")

C17_WitnessEmpty ==
  \E r \in Slots :
    /\ req[r].route = PutRoute /\ req[r].pc = "done"
    /\ req[r].stored.op = "updateOne" /\ ~req[r].stored.threw
    /\ castObjectId(req[r].id) \in DOMAIN collection
    /\ req[r].raw = EmptyBody
    /\ req[r].res.status = 404

(***************************************************************************)
(* C18.  GET /v1/health_check is always answered, by the route itself:     *)
(* with 200 when the store answered the ping and with 503 in every other   *)
(* case, a database handle that was never set (db._db is null) and a store *)
(* that cannot be reached among them.  It is never answered 500 and its    *)
(* failure never reaches the error handler.                                *)
(***************************************************************************)
C18_HealthStatus ==
  \A r \in Slots :
    req[r].route = HealthRoute =>
      /\ req[r].pc # "error" /\ req[r].err = NoErr
      /\ req[r].pc = "done" =>
           /\ req[r].stored.op = "ping"
           /\ req[r].res.by = "route" /\ req[r].sent = 1
           /\ req[r].res.status \in {200, 503}
           /\ req[r].res.status = 200 <=> ~req[r].stored.threw
           /\ ~dbHandle => req[r].res.status = 503

C18_HealthCheck ==
  /\ []C18_HealthStatus
  /\ \A r \in Slots :
       (req[r].pc # "idle" /\ req[r].route = HealthRoute) ~> (req[r].pc = "done")

C18_Witness ==
  \E r \in Slots :
    /\ req[r].route = HealthRoute /\ req[r].pc = "done"
    /\ ~dbHandle
    /\ req[r].res.status = 503

C18_WitnessUnreachable ==
  \E r \in Slots :
    /\ req[r].route = HealthRoute /\ req[r].pc = "done"
    /\ dbHandle /\ req[r].stored.threw
    /\ req[r].res.status = 503

C18_Witness200 ==
  \E r \in Slots :
    /\ req[r].route = HealthRoute /\ req[r].pc = "done"
    /\ req[r].res.status = 200

(***************************************************************************)
(* C19.  For a name that is not an own key of the schema registry, names   *)
(* inherited from Object.prototype (toString, constructor) included,       *)
(* getSchemaValidator does not throw: it returns a gate that is fixed as   *)
(* the unknown-schema gate when it is made, and that gate refuses every    *)
(* body with 422 "Unknown schema type", leaves the body as sent and never  *)
(* lets the request pass.                                                  *)
(***************************************************************************)
C19_UnknownSchemaType ==
  (probe.made /\ probe.schemaType # "todo") =>
    /\ Len(probe.gate) = 1
    /\ ~probe.gate[1].threw
    /\ ~probe.gate[1].known
    /\ probe.asked =>
         /\ ~probe.outcome[1].pass
         /\ probe.outcome[1].status = 422
         /\ probe.outcome[1].message = Plain("Unknown schema type")
         /\ probe.outcome[1].body = probe.body

C19_Witness ==
  /\ probe.made /\ probe.asked
  /\ probe.schemaType = "toString"
  /\ SatisfiesTodo(probe.body, TRUE)
  /\ probe.outcome[1].status = 422

C19_WitnessKnown ==
  /\ probe.made /\ probe.asked
  /\ probe.schemaType = "todo"
  /\ probe.outcome[1].pass

(***************************************************************************)
(* C20.  When DB_URI is set to a value that is not blank the MongoDB       *)
(* client is constructed with DB_URI without its leading and trailing      *)
(* white space; only when DB_URI is unset or blank is the URI built as     *)
(* mongodb://[user:password@]host:port from DB_USER_NAME, DB_PASSWORD,     *)
(* DB_URL and DB_PORT.                                                     *)
(***************************************************************************)
Blank(c) == c \in {" ", "\t", "\n"}

NonBlankValue(v) == v.set /\ \E i \in 1..Len(v.val) : ~Blank(v.val[i])

\* u is s without its leading and trailing white space
IsTrimOf(u, s) ==
  \E i, j \in 1..Len(s) :
    /\ i <= j /\ u = SubSeq(s, i, j)
    /\ ~Blank(s[i]) /\ ~Blank(s[j])
    /\ \A k \in 1..Len(s) : (k < i \/ k > j) => Blank(s[k])

C20_DbUriPreferred ==
  client.constructed =>
    IF NonBlankValue(processEnv.DB_URI)
      THEN IsTrimOf(client.uri, processEnv.DB_URI.val)
    ELSE /\ Len(client.uri) >= 4
         /\ client.uri[1] = "mongodb://"
         /\ SubSeq(client.uri, Len(client.uri) - 2, Len(client.uri))
              = <<(IF processEnv.DB_URL.set THEN processEnv.DB_URL.val[1] ELSE "localhost"),
                  ":",
                  (IF processEnv.DB_PORT.set THEN processEnv.DB_PORT.val[1] ELSE "27017")>>

\* the parts of the claim the code does satisfy: without DB_URI the URI is built
C20_BuiltWithoutDbUri ==
  (client.constructed /\ ~NonBlankValue(processEnv.DB_URI)) =>
    /\ client.uri[1] = "mongodb://"
    /\ Len(client.uri) = 4 <=> (~processEnv.DB_USER_NAME.set \/ ~processEnv.DB_PASSWORD.set)

(***************************************************************************)
(* C21.  date_created is assigned by the server and never by the client:   *)
(* a POST or PUT body that contains date_created never reaches the         *)
(* handler, and the gate refuses it with 422 for its undeclared property;  *)
(* every step leaves the date_created of each stored document as it was,   *)
(* and a document that enters the collection carries the time of the       *)
(* clock at its creation.                                                  *)
(***************************************************************************)
SuppliesDate(b) == "date_created" \in DOMAIN b.props

C21_Rejected ==
  \A r \in Slots :
    (req[r].pc # "idle" /\ HasGate(req[r].route) /\ SuppliesDate(req[r].raw)) =>
      /\ ~HandlerReached(r)
      /\ InTrace(r, "gate") => Refused(r, 422, "must NOT have additional properties")

C21_Assigned ==
  \A o \in DOMAIN collection' :
    /\ "date_created" \in DOMAIN collection'[o]
    /\ IF o \in DOMAIN collection
         THEN collection'[o]["date_created"] = collection[o]["date_created"]
       ELSE collection'[o]["date_created"] = DateVal(now)

C21_DateCreated == [](C21_Rejected) /\ [][C21_Assigned]_vars

\* a document created at time 0 still has that date at time 1, after a PUT
\* that carried a date_created for it was refused
C21_Witness ==
  /\ now = 1
  /\ \E r \in Slots :
       /\ req[r].pc = "done" /\ req[r].route = PutRoute
       /\ SuppliesDate(req[r].raw)
       /\ req[r].res.status = 422
       /\ WellFormedId(req[r].id)
       /\ castObjectId(req[r].id) \in DOMAIN collection
       /\ collection[castObjectId(req[r].id)]["date_created"] = DateVal(0)

(***************************************************************************)
(* C22.  The gate leaves req.body unchanged whenever validation fails: a   *)
(* body that the gate refused is passed to the error handler with its      *)
(* fields exactly as the client sent them.                                 *)
(***************************************************************************)
C22_BodyUnchangedOnFailure ==
  \A r \in Slots :
    (req[r].pc = "error" /\ InTrace(r, "gate") /\ req[r].err.status = 422) =>
      req[r].body = req[r].raw

(***************************************************************************)
(* C23.  The registered todo schema is never mutated: after any sequence   *)
(* of getSchemaValidator calls, strict and partial in any order, and any   *)
(* number of validations, the object the registry holds still has its      *)
(* required list, its properties and additionalProperties: false, and a    *)
(* strict gate refuses a body that lacks a required field, whatever gates  *)
(* were made before it.                                                    *)
(***************************************************************************)
C23_RegistryIntact ==
  LET registered == schemaHeap[SchemaAddress["todo"]] IN
  /\ registered.type = "object"
  /\ registered.required = <<"task", "priority", "assigned_to", "is_complete">>
  /\ registered.properties = [task |-> "string", priority |-> "number",
                              assigned_to |-> "string", is_complete |-> "boolean"]
  /\ registered.additionalProperties = FALSE
  /\ (/\ probe.made /\ probe.asked
      /\ probe.schemaType = "todo" /\ probe.mode = "strict"
      /\ probe.body.obj /\ LacksRequired(probe.body)) =>
       /\ ~probe.outcome[1].pass
       /\ probe.outcome[1].status = 422
       /\ HasReason(probe.outcome[1].message, "must have required property")

\* a strict gate made after a partial one refuses a body without its task
C23_Witness ==
  /\ Len(schemaHeap) >= 3
  /\ schemaHeap[2].required = <<>>
  /\ probe.made /\ probe.asked
  /\ probe.schemaType = "todo" /\ probe.mode = "strict"
  /\ probe.body.obj /\ "task" \notin DOMAIN probe.body.props
  /\ probe.outcome[1].status = 422

(***************************************************************************)
(* C24.  The compiled check is safe for reuse by concurrent requests:      *)
(* under any interleaving of two requests, whether a request passes its    *)
(* gate and the message of its 422 are those of the validation of its own  *)
(* body as sent; the errors recorded for the other request are never       *)
(* reported to it.                                                         *)
(***************************************************************************)
C24_OwnOutcome ==
  \A r \in ConcSlots :
    InTrace(r, "gate") =>
      LET own == AjvValidate(GateOf(req[r].route).compiled, req[r].raw) IN
      IF own.valid
        THEN /\ req[r].err.status # 422
             /\ HandlerReached(r)
      ELSE /\ req[r].pc \in {"error", "done"}
           /\ ~HandlerReached(r)
           /\ req[r].err.status = 422
           /\ req[r].err.message = own.errors
           /\ req[r].pc = "done" =>
                /\ req[r].res.status = 422
                /\ req[r].res.message = own.errors

\* two POSTs refused by the same gate are both on their way to the error
\* handler, each with its own message; validate.errors holds the errors of
\* the second
C24_Witness ==
  /\ req["r1"].route = PostRoute /\ req["r2"].route = PostRoute
  /\ req["r1"].pc = "error" /\ req["r2"].pc = "error"
  /\ req["r1"].err.status = 422 /\ req["r2"].err.status = 422
  /\ req["r1"].err.message # req["r2"].err.message
  /\ validateErrors.strict = req["r2"].err.message

(***************************************************************************)
(* C25.  A request answered with a client-error status (400, 404, 422)     *)
(* leaves the todos collection as it was: such a request has no write      *)
(* that inserted, modified or removed a document, and only a step whose    *)
(* store call reports a document written changes the collection.           *)
(***************************************************************************)
ClientErrors == {400, 404, 422}

C25_NothingWritten ==
  \A r \in Slots :
    (req[r].pc = "done" /\ req[r].res.status \in ClientErrors) =>
      req[r].stored.count = 0

C25_WritesAreCounted ==
  collection' # collection =>
    \E r \in Slots :
      /\ req[r].pc = "handler" /\ req'[r].pc = "await"
      /\ req'[r].stored.count > 0

C25_ClientErrorNoChange == [](C25_NothingWritten) /\ [][C25_WritesAreCounted]_vars

\* a PUT for a stored document that modifies nothing is answered 404, and
\* the document is there as it was
C25_Witness ==
  \E r \in Slots :
    /\ req[r].pc = "done" /\ req[r].route = PutRoute
    /\ req[r].res.status = 404
    /\ req[r].stored.op = "updateOne" /\ ~req[r].stored.threw
    /\ castObjectId(req[r].id) \in DOMAIN collection
    /\ req[r].body.props # EmptyProps

(***************************************************************************)
(* C26.  Starting from an empty collection, after any sequence of API      *)
(* requests every stored document has exactly the fields task, priority,   *)
(* assigned_to, is_complete and date_created (and its _id, the key of the  *)
(* collection), with task and assigned_to strings, priority a number and   *)
(* is_complete a boolean.                                                  *)
(***************************************************************************)
C26_StoredShape ==
  \A o \in DOMAIN collection :
    LET doc == collection[o] IN
    /\ DOMAIN doc = {"task", "priority", "assigned_to", "is_complete", "date_created"}
    /\ doc["task"].t = "string"
    /\ doc["assigned_to"].t = "string"
    /\ doc["priority"].t = "number"
    /\ doc["is_complete"].t = "boolean"

\* a document whose priority, assignee and completion were all sent as values
\* of another type, by its POST and by later PUTs
C26_Witness ==
  \E o \in DOMAIN collection :
    /\ collection[o]["priority"] = Num(3)
    /\ collection[o]["assigned_to"] = Str("2")
    /\ collection[o]["is_complete"] = Bool(TRUE)

(***************************************************************************)
(* C27.  The identifier check and the identifier cast agree: every id the  *)
(* parameter check lets through is one that castObjectId converts without  *)
(* throwing, so a GET, PUT or DELETE by id whose handler is reached is     *)
(* never failed by the format of its identifier.                           *)
(***************************************************************************)
LetThrough(r) ==
  /\ HasIdParam(req[r].route)
  /\ InTrace(r, "param")
  /\ ~(req[r].pc = "done" /\ req[r].res.by = "param")

C27_WitnessTwelve ==
  \E r \in Slots :
    /\ req[r].pc = "done" /\ req[r].route = DeleteRoute
    /\ Len(req[r].id) = 12
    /\ req[r].res.status = 400

====
